---- MODULE Spec2Model ----
(***************************************************************************)
(* Model of the HLS retrieval pipeline of streamforge:                     *)
(* HLSDownloader.downloadSegments / decryptSegment / stitchSegments /      *)
(* abort (src/services/downloader.ts).                                     *)
(*                                                                         *)
(* One step of the model is one browser task (a network response or a      *)
(* crypto result arriving, a user call) together with the microtasks it    *)
(* triggers: the continuation of the segment task up to its next await,    *)
(* the settling of Promise.all and the continuation of the batch loop.     *)
(***************************************************************************)
EXTENDS Integers, Sequences, FiniteSets, TLC

VARIABLES
    invs,            \* id -> record of a downloadSegments invocation still of interest
    tasks,           \* segment tasks (batch.map callbacks) suspended at an await
    keyCache,        \* HLSDownloader.keyCache
    abortController, \* HLSDownloader.abortController: 0 = null, else invocation id
    stitched,        \* last value returned by stitchSegments (with its argument
                     \* and the invocation that produced the argument)
    app,             \* React state of App (progress, stitchedData, conversionFailed,
                     \* last log entry) and ffmpegService.isLoaded
    calls,           \* handleDownload / handleConvertToMP4 calls suspended at an await
    parsed,          \* a manifest text and what fetchManifest made of it
    ffmpeg,          \* FFmpegService (isLoaded, its engine) and its convertTsToMp4 calls
    fragments        \* the data segments handed to normalizeTimestampsInPlace

downloaderVars == <<invs, tasks, keyCache, abortController, stitched>>

converterVars == <<ffmpeg, fragments>>

vars == <<invs, tasks, keyCache, abortController, stitched, app, calls, parsed,
          ffmpeg, fragments>>

----------------------------------------------------------------------------
(* Bounds of the explored environment *)

MaxSegs == 12          \* segments of the longest list handed to downloadSegments
MaxOverlap == 4        \* segments of the invocations alive together, when more than one is
MaxInFlight == 1       \* tasks of earlier calls still suspended when a call is made
MediaSequence == 7     \* #EXT-X-MEDIA-SEQUENCE of the playlists the lists come from
MaxCalls == 2          \* App handlers (download, convert) suspended at the same time
MaxLines == 4          \* lines of a manifest
MaxEngines == 2        \* FFmpeg objects load() creates
MaxConverts == 1       \* convertTsToMp4 calls whose handlers are attached to the engine together

(* Program constants *)

BATCH_SIZE == 5

----------------------------------------------------------------------------
(* Values *)

\* key URIs (absolute URLs)
KeyUris == {"k1", "k2"}

\* an optional Uint8Array: undefined (a hole of an array) or a buffer
Missing == [has |-> FALSE, bytes |-> <<>>]

Buf(b) == [has |-> TRUE, bytes |-> b]

\* encryption field of a Segment; method "undefined" stands for an absent field
NoEncryption == [method |-> "undefined", uri |-> "", iv |-> Missing]

Aes(uri) == [method |-> "AES-128", uri |-> uri, iv |-> Missing]

NoError == [msg |-> "none", by |-> -1]

AbortedError == [msg |-> "Download aborted", by |-> -1]

\* by: the segment task that threw (identity of the Error object)
SegmentFetchError(idx) == [msg |-> "Failed to fetch segment", by |-> idx]

KeyFetchError(idx) == [msg |-> "Failed to fetch key", by |-> idx]

DecryptionError(idx) == [msg |-> "Decryption failed. Check key validity or IV.", by |-> idx]

Min(a, b) == IF a < b THEN a ELSE b

\* (variant of FetchUrl that requests every URL directly)
FetchUrlDirect(useProxy, url) == [relay |-> FALSE, url |-> url]

\* useProxy ? `https://corsproxy.io/?${encodeURIComponent(url)}` : url
\* (relay: the address is the relay's, wrapping url)
FetchUrl(useProxy, url) == [relay |-> useProxy, url |-> url]

----------------------------------------------------------------------------
(* The network and the cipher, as the environment answers *)

\* bytes served for a segment URL (some segments are empty)
Body(url) ==
    IF url % 3 = 2 THEN <<>>
    ELSE IF url % 3 = 1 THEN <<url % 256>>
    ELSE <<url % 256, (url + 1) % 256>>

\* raw key served for a key URI
KeyBytes(uri) == IF uri = "k1" THEN 17 ELSE 34

RECURSIVE SumSeq(_)
SumSeq(s) == IF s = <<>> THEN 0 ELSE s[1] + SumSeq(Tail(s))

\* AES-CBC decryption, abstracted to a map that depends on every input
Decrypt(data, key, iv) ==
    [j \in 1..Len(data) |-> (data[j] + key + SumSeq(iv)) % 256]

----------------------------------------------------------------------------
(* Segment lists handed to downloadSegments (index = list position) *)

\* n segments of which the first `keyed` are AES-128 under key k1
SegmentList(n, keyed) ==
    [p \in 1..n |-> [index |-> p - 1, url |-> p - 1,
                     encryption |-> IF p <= keyed THEN Aes("k1") ELSE NoEncryption,
                     seqId |-> MediaSequence + p - 1]]

SegmentLists ==
    {SegmentList(0, 0), SegmentList(2, 0), SegmentList(2, 2), SegmentList(MaxSegs, 2)}

----------------------------------------------------------------------------
(* Helpers *)

\* n shifted right by 8 * bytes bits
RECURSIVE ShiftBytes(_, _)
ShiftBytes(n, bytes) == IF bytes = 0 THEN n ELSE ShiftBytes(n \div 256, bytes - 1)

\* (variant of sequenceToIV that writes the number little-endian)
sequenceToIVLittleEndian(seq) ==
    [k \in 1..16 |-> IF k <= 8 THEN 0 ELSE ShiftBytes(seq, k - 9) % 256]

\* sequenceToIV: 16 zero bytes, then setBigUint64(8, seq) (big-endian, bytes 8..15)
sequenceToIV(seq) ==
    [k \in 1..16 |-> IF k <= 8 THEN 0 ELSE ShiftBytes(seq, 16 - k) % 256]

\* the catch branch of sequenceToIV (line 38): setUint32(12, seq) writes seq
\* modulo 2^32 big-endian into bytes 12..15
sequenceToIVFallback(seq) ==
    [k \in 1..16 |->
        IF k <= 12 THEN 0
        ELSE ShiftBytes((((seq \div 65536) % 65536) * 65536) + (seq % 65536), 16 - k) % 256]

SegOf(v, idx) == v.segments[idx + 1]

\* line 171: seg.encryption && method === 'AES-128' && seg.encryption.uri
NeedsDecrypt(seg) ==
    /\ seg.encryption.method # "undefined"
    /\ seg.encryption.method = "AES-128"
    /\ seg.encryption.uri # ""

\* line 172: seg.seqId || seg.index
SeqArg(seg) == IF seg.seqId # 0 THEN seg.seqId ELSE seg.index

\* (variant of IvFor that derives the IV from the sequence number always)
IvForSequenceOnly(seg) == sequenceToIV(SeqArg(seg))

\* line 220: encryption.iv ? encryption.iv : sequenceToIV(seqId)
IvFor(seg) ==
    IF seg.encryption.iv.has THEN seg.encryption.iv.bytes
    ELSE sequenceToIV(SeqArg(seg))

\* the plaintext decryptSegment returns for seg
Decrypted(seg) ==
    Decrypt(Body(seg.url), KeyBytes(seg.encryption.uri), IvFor(seg))

\* (variant of BatchTasks that starts every remaining segment at once)
BatchTasksWholeList(id, v) ==
    { [inv |-> id, idx |-> k, stage |-> "fetch", iv |-> <<>>,
       target |-> FetchUrl(v.useProxy, v.segments[k + 1].url)] :
        k \in v.i .. (Len(v.segments) - 1) }

\* the tasks batch.map creates for the batch starting at v.i (each awaiting its
\* fetch; target: the address of the request the task awaits)
BatchTasks(id, v) ==
    { [inv |-> id, idx |-> k, stage |-> "fetch", iv |-> <<>>,
       target |-> FetchUrl(v.useProxy, v.segments[k + 1].url)] :
        k \in v.i .. (Min(v.i + BATCH_SIZE, Len(v.segments)) - 1) }

\* (variant of Catch that rethrows even when the signal is aborted)
CatchRethrowsAlways(v, err) == err

\* catch block of a segment task: rethrow unless the signal is aborted
Catch(v, err) == IF ~v.aborted THEN err ELSE NoError

\* (variant of Store that writes at the completion position, not at seg.index)
StoreAtCompletionPosition(v, idx, data) ==
    [v EXCEPT !.results = [@ EXCEPT ![v.downloadedCount] = Buf(data)],
              !.downloadedCount = @ + 1,
              !.progress = Append(@, <<v.downloadedCount + 1, Len(v.segments)>>),
              !.outOfOrder = @ \/ \E j \in 0..(idx - 1) : ~v.results[j].has]

\* results[seg.index] = data; downloadedCount++; onProgress(downloadedCount, total)
\* (outOfOrder records that a segment completed before one of lower index)
Store(v, idx, data) ==
    [v EXCEPT !.results = [@ EXCEPT ![idx] = Buf(data)],
              !.downloadedCount = @ + 1,
              !.progress = Append(@, <<v.downloadedCount + 1, Len(v.segments)>>),
              !.outOfOrder = @ \/ \E j \in 0..(idx - 1) : ~v.results[j].has]

\* a segment task threw err: history of the first failure thrown while the
\* signal was not aborted, and of failures thrown while it was
Threw(v, err) ==
    [v EXCEPT !.firstFail = IF @ = NoError /\ ~v.aborted THEN err ELSE @,
              !.swallowed = @ \/ v.aborted]

\* (variant of LoopHead without the signal.aborted check of line 158)
LoopHeadWithoutAbortCheck(v) ==
    IF ~(v.i < Len(v.segments)) THEN [v EXCEPT !.status = "resolved"]
    ELSE [v EXCEPT !.fetches =
             [k \in DOMAIN @ |->
                 IF k >= v.i /\ k < v.i + BATCH_SIZE THEN @[k] + 1 ELSE @[k]]]

\* head of the batch loop at v.i: return, throw, or issue the batch's fetches
LoopHead(v) ==
    IF ~(v.i < Len(v.segments)) THEN [v EXCEPT !.status = "resolved"]
    ELSE IF v.aborted THEN [v EXCEPT !.status = "rejected", !.error = AbortedError]
    ELSE [v EXCEPT !.fetches =
             [k \in DOMAIN @ |->
                 IF k >= v.i /\ k < v.i + BATCH_SIZE THEN @[k] + 1 ELSE @[k]]]

\* (variant of AfterAll that advances the loop by one segment)
AfterAllNextSegment(v) == LoopHead([v EXCEPT !.i = @ + 1])

\* the batch loop after `await Promise.all(promises)` returned
AfterAll(v) == LoopHead([v EXCEPT !.i = @ + BATCH_SIZE])

\* (variant of Settled in which a later rejection replaces the first one)
SettledLastRejectionWins(id, v, rest, rej) ==
    IF rej # NoError THEN [v EXCEPT !.status = "rejected", !.error = rej]
    ELSE IF v.status # "running" THEN v
    ELSE IF {t \in rest : t.inv = id} = {} THEN AfterAll(v)
    ELSE v

\* Promise.all and the caller after task promises settled: v is the invocation
\* after the tasks' own writes, rest the tasks still suspended, rej the
\* rejection (NoError when every settled task fulfilled)
Settled(id, v, rest, rej) ==
    IF v.status # "running" THEN v
    ELSE IF rej # NoError THEN [v EXCEPT !.status = "rejected", !.error = rej]
    ELSE IF {t \in rest : t.inv = id} = {} THEN AfterAll(v)
    ELSE v

Spawned(id, old, new) ==
    IF new.status = "running" /\ new.i # old.i THEN BatchTasks(id, new) ELSE {}

\* An invocation that is not the current one, has settled and has no task left
\* can no longer act or be acted upon: the step after it got there forgets it.
Forgettable ==
    {j \in DOMAIN invs : /\ j # abortController
                         /\ invs[j].status # "running"
                         /\ \A t \in tasks : t.inv # j}

Keep(f) == [j \in DOMAIN f \ Forgettable |-> f[j]]

\* commit a step of invocation id in which task promises settled
Commit(id, v, rest, rej) ==
    LET w == Settled(id, v, rest, rej) IN
    /\ invs' = Keep([invs EXCEPT ![id] = w])
    /\ tasks' = rest \cup Spawned(id, v, w)

\* commit a step in which the task only moved to its next await
Suspend(t, stage) ==
    tasks' = (tasks \ {t}) \cup {[t EXCEPT !.stage = stage]}

\* the task requested the key (lines 203-204) and awaits the response
SuspendAtKey(t, keyUrl) ==
    tasks' = (tasks \ {t}) \cup {[t EXCEPT !.stage = "key", !.target = keyUrl]}

\* the task determined its IV (line 220) and awaits crypto.subtle.decrypt
SuspendAtDecrypt(t, iv) ==
    tasks' = (tasks \ {t}) \cup
                {[t EXCEPT !.stage = "decrypt", !.iv = iv, !.target = FetchUrl(FALSE, "")]}

\* stitchedData before any output: input is the array handed to stitchSegments,
\* of the invocation that returned it
NotStitched == [has |-> FALSE, bytes |-> <<>>, input |-> <<>>, of |-> 0]

\* by: the invocation whose task inserted the entry
EmptyCache == [u \in KeyUris |-> [has |-> FALSE, key |-> 0, by |-> 0]]

\* the invocations that can still act when a new call is made: those not
\* settled and those with tasks still suspended
Alive == {j \in DOMAIN invs : invs[j].status = "running" \/ \E t \in tasks : t.inv = j}

RECURSIVE Handed(_)
Handed(ids) ==
    IF ids = {} THEN 0
    ELSE LET j == CHOOSE x \in ids : TRUE
         IN Len(invs[j].segments) + Handed(ids \ {j})

----------------------------------------------------------------------------
\* React state after the first render of App (App.tsx lines 17-26)
AppInit ==
    [phase |-> "idle", percent |-> [num |-> 0, den |-> 1],
     totalSegments |-> 0, downloadedSegments |-> 0,
     stitchedData |-> Missing, conversionFailed |-> FALSE,
     lastLog |-> "none", isLoaded |-> FALSE]

\* no manifest has been handed to fetchManifest
NoInfo == [segmentCount |-> 0, targetDuration |-> 0, duration |-> 0, isEncrypted |-> FALSE]

\* target: the address the manifest was requested from (url "": no request yet)
NotParsed ==
    [text |-> <<>>, useProxy |-> FALSE, target |-> FetchUrl(FALSE, ""),
     outcome |-> "none", segments |-> <<>>, info |-> NoInfo]

\* FFmpegService after construction (ffmpegService.ts lines 5-6): no engine
\* (engine 0: null), not loaded, no call; hasOff: whether the engine object
\* has an off method (line 90 calls it only if it exists)
ServiceStart ==
    [isLoaded |-> FALSE, engine |-> 0, loading |-> {}, ready |-> {}, hasOff |-> TRUE,
     files |-> {}, lastConvert |-> "none", convs |-> <<>>]

\* normalizeTimestampsInPlace has not been called
NoFragments == [input |-> <<>>, output |-> <<>>, called |-> FALSE]

Init ==
    /\ invs = <<>>
    /\ tasks = {}
    /\ keyCache = EmptyCache
    /\ abortController = 0
    /\ stitched = NotStitched
    /\ app = AppInit
    /\ calls = {}
    /\ parsed = NotParsed
    /\ ffmpeg = ServiceStart
    /\ fragments = NoFragments

\* (variant of DownloadSegments that keeps the controller of the previous call,
\* signalled or not, instead of creating a new one)
DownloadSegmentsReusingToken(segs, useProxy) ==
    /\ Alive = {} \/ Handed(Alive) + Len(segs) <= MaxOverlap
    /\ Cardinality(tasks) <= MaxInFlight
    /\ LET id == CHOOSE k \in 1..(MaxInFlight + 1) :
                    k \notin Alive /\ \A j \in 1..(k - 1) : j \in Alive
           n == Len(segs)
           v == LoopHead([segments |-> segs, status |-> "running", error |-> NoError,
                          i |-> 0, results |-> [k \in 0..(n - 1) |-> Missing],
                          downloadedCount |-> 0, progress |-> <<>>,
                          aborted |-> (abortController \in DOMAIN invs
                                       /\ invs[abortController].aborted), abortedAt |-> -1,
                          fetches |-> [k \in 0..(n - 1) |-> 0],
                          keyFetches |-> [u \in KeyUris |-> 0],
                          useProxy |-> useProxy,
                          startedAlone |-> \A j \in DOMAIN invs : invs[j].status # "running",
                          lateKeys |-> 0, outOfOrder |-> FALSE,
                          firstFail |-> NoError, swallowed |-> FALSE])
       IN /\ invs' = [j \in Alive \cup {id} |-> IF j = id THEN v ELSE invs[j]]
          /\ tasks' = tasks \cup (IF v.status = "running" THEN BatchTasks(id, v) ELSE {})
          /\ keyCache' = EmptyCache
          /\ abortController' = id
          /\ stitched' = NotStitched

\* downloadSegments(segs, onProgress, useProxy) is called: lines 147-160 up to the first
\* await. Invocations that settled and have no task left can no longer act and
\* are forgotten, with the output stitched from their buffers.
DownloadSegments(segs, useProxy) ==
    /\ Alive = {} \/ Handed(Alive) + Len(segs) <= MaxOverlap
    /\ Cardinality(tasks) <= MaxInFlight
    /\ LET id == CHOOSE k \in 1..(MaxInFlight + 1) :
                    k \notin Alive /\ \A j \in 1..(k - 1) : j \in Alive
           n == Len(segs)
           v == LoopHead([segments |-> segs, status |-> "running", error |-> NoError,
                          i |-> 0, results |-> [k \in 0..(n - 1) |-> Missing],
                          downloadedCount |-> 0, progress |-> <<>>,
                          aborted |-> FALSE, abortedAt |-> -1,
                          fetches |-> [k \in 0..(n - 1) |-> 0],
                          keyFetches |-> [u \in KeyUris |-> 0],
                          useProxy |-> useProxy,
                          startedAlone |-> \A j \in DOMAIN invs : invs[j].status # "running",
                          lateKeys |-> 0, outOfOrder |-> FALSE,
                          firstFail |-> NoError, swallowed |-> FALSE])
       IN /\ invs' = [j \in Alive \cup {id} |-> IF j = id THEN v ELSE invs[j]]
          /\ tasks' = tasks \cup (IF v.status = "running" THEN BatchTasks(id, v) ELSE {})
          /\ keyCache' = EmptyCache
          /\ abortController' = id
          /\ stitched' = NotStitched

\* the segment response arrived with res.ok and its body was read (lines 165-177)
SegmentFetched(t) ==
    /\ t \in tasks /\ t.stage = "fetch"
    /\ LET v == invs[t.inv]
           seg == SegOf(v, t.idx)
           uri == seg.encryption.uri
       IN IF NeedsDecrypt(seg)
          THEN IF keyCache[uri].has
               THEN /\ SuspendAtDecrypt(t, IvFor(seg))
                    /\ invs' = Keep(invs)
               ELSE /\ SuspendAtKey(t, FetchUrl(v.useProxy, uri))
                    /\ invs' = Keep([invs EXCEPT ![t.inv].keyFetches[uri] = @ + 1])
          ELSE Commit(t.inv, Store(v, t.idx, Body(seg.url)), tasks \ {t}, NoError)
    /\ UNCHANGED <<keyCache, abortController, stitched>>

\* the segment response was not ok (line 166; a fetch that rejects on the
\* network reaches the same catch block)
SegmentFetchFailed(t) ==
    /\ t \in tasks /\ t.stage = "fetch"
    /\ Commit(t.inv, Threw(invs[t.inv], SegmentFetchError(t.idx)), tasks \ {t},
              Catch(invs[t.inv], SegmentFetchError(t.idx)))
    /\ UNCHANGED <<keyCache, abortController, stitched>>

\* the key response arrived and the key was imported (lines 204-216)
KeyFetched(t) ==
    /\ t \in tasks /\ t.stage = "key"
    /\ LET uri == SegOf(invs[t.inv], t.idx).encryption.uri
       IN /\ keyCache' = [keyCache EXCEPT
                 ![uri] = [has |-> TRUE, key |-> KeyBytes(uri), by |-> t.inv]]
          /\ invs' = Keep([invs EXCEPT ![t.inv].lateKeys =
                              IF invs[t.inv].aborted THEN @ + 1 ELSE @])
    /\ SuspendAtDecrypt(t, IvFor(SegOf(invs[t.inv], t.idx)))
    /\ UNCHANGED <<abortController, stitched>>

\* the key response was not ok (line 205)
KeyFetchFailed(t) ==
    /\ t \in tasks /\ t.stage = "key"
    /\ Commit(t.inv, Threw(invs[t.inv], KeyFetchError(t.idx)), tasks \ {t},
              Catch(invs[t.inv], KeyFetchError(t.idx)))
    /\ UNCHANGED <<keyCache, abortController, stitched>>

\* crypto.subtle.decrypt returned the plaintext (lines 224-229, 175-177)
DecryptDone(t) ==
    /\ t \in tasks /\ t.stage = "decrypt"
    /\ LET v == invs[t.inv] IN
          Commit(t.inv,
                 Store(v, t.idx, Decrypt(Body(SegOf(v, t.idx).url),
                                         KeyBytes(SegOf(v, t.idx).encryption.uri), t.iv)),
                 tasks \ {t}, NoError)
    /\ UNCHANGED <<keyCache, abortController, stitched>>

\* crypto.subtle.decrypt rejected (lines 230-233)
DecryptFailed(t) ==
    /\ t \in tasks /\ t.stage = "decrypt"
    /\ Commit(t.inv, Threw(invs[t.inv], DecryptionError(t.idx)), tasks \ {t},
              Catch(invs[t.inv], DecryptionError(t.idx)))
    /\ UNCHANGED <<keyCache, abortController, stitched>>

\* abort(): signals the current controller; every fetch made with its signal
\* rejects, the tasks' catch blocks run with signal.aborted set
Abort ==
    /\ abortController \in DOMAIN invs
    /\ LET id == abortController
           v == invs[id]
       IN IF v.aborted THEN invs' = Keep(invs) /\ UNCHANGED tasks
          ELSE Commit(id,
                      [v EXCEPT !.aborted = TRUE,
                                !.abortedAt = IF v.status = "running" THEN v.i ELSE -1],
                      {t \in tasks : ~(t.inv = id /\ t.stage = "fetch")},
                      NoError)
    /\ UNCHANGED <<keyCache, abortController, stitched>>

----------------------------------------------------------------------------
(* stitchSegments *)

\* buffers.filter(b => b && b.length > 0), from array index k on
RECURSIVE validBuffers(_, _)
validBuffers(buffers, k) ==
    IF k \notin DOMAIN buffers THEN <<>>
    ELSE (IF buffers[k].has /\ Len(buffers[k].bytes) > 0
          THEN <<buffers[k].bytes>> ELSE <<>>) \o validBuffers(buffers, k + 1)

\* validBuffers.reduce((acc, b) => acc + b.length, 0)
RECURSIVE totalLength(_)
totalLength(valid) ==
    IF valid = <<>> THEN 0 ELSE Len(valid[1]) + totalLength(Tail(valid))

\* (variant of MergeLoop that never advances offset)
RECURSIVE MergeLoopFixedOffset(_, _, _)
MergeLoopFixedOffset(valid, merged, offset) ==
    IF valid = <<>> THEN merged
    ELSE MergeLoopFixedOffset(Tail(valid),
                   [j \in DOMAIN merged |->
                       IF j > offset /\ j <= offset + Len(valid[1])
                       THEN valid[1][j - offset] ELSE merged[j]],
                   offset)

\* the loop `merged.set(buffer, offset); offset += buffer.length`
RECURSIVE MergeLoop(_, _, _)
MergeLoop(valid, merged, offset) ==
    IF valid = <<>> THEN merged
    ELSE MergeLoop(Tail(valid),
                   [j \in DOMAIN merged |->
                       IF j > offset /\ j <= offset + Len(valid[1])
                       THEN valid[1][j - offset] ELSE merged[j]],
                   offset + Len(valid[1]))

stitchSegments(buffers) ==
    LET valid == validBuffers(buffers, 0)
    IN MergeLoop(valid, [j \in 1..totalLength(valid) |-> 0], 0)

\* (variant of StitchBuffers in which stitching empties the buffers it was given)
StitchBuffersConsuming(id) ==
    /\ id \in DOMAIN invs
    /\ invs[id].status = "resolved"
    /\ stitched' = [has |-> TRUE, bytes |-> stitchSegments(invs[id].results),
                    input |-> invs[id].results, of |-> id]
    /\ invs' = Keep([invs EXCEPT ![id].results = [k \in DOMAIN @ |-> Buf(<<>>)]])
    /\ UNCHANGED <<tasks, keyCache, abortController>>

\* the caller stitches the buffers a resolved invocation returned (App.tsx line 75)
StitchBuffers(id) ==
    /\ id \in DOMAIN invs
    /\ invs[id].status = "resolved"
    /\ stitched' = [has |-> TRUE, bytes |-> stitchSegments(invs[id].results),
                    input |-> invs[id].results, of |-> id]
    /\ invs' = Keep(invs)
    /\ UNCHANGED <<tasks, keyCache, abortController>>

----------------------------------------------------------------------------
Next ==
    \/ \E segs \in SegmentLists : DownloadSegments(segs, FALSE) /\ UNCHANGED <<app, calls, parsed, converterVars>>
    \/ \E t \in tasks : SegmentFetched(t) /\ UNCHANGED <<app, calls, parsed, converterVars>>
    \/ \E t \in tasks : SegmentFetchFailed(t) /\ UNCHANGED <<app, calls, parsed, converterVars>>
    \/ \E t \in tasks : KeyFetched(t) /\ UNCHANGED <<app, calls, parsed, converterVars>>
    \/ \E t \in tasks : KeyFetchFailed(t) /\ UNCHANGED <<app, calls, parsed, converterVars>>
    \/ \E t \in tasks : DecryptDone(t) /\ UNCHANGED <<app, calls, parsed, converterVars>>
    \/ \E t \in tasks : DecryptFailed(t) /\ UNCHANGED <<app, calls, parsed, converterVars>>
    \/ Abort /\ UNCHANGED <<app, calls, parsed, converterVars>>
    \/ \E id \in DOMAIN invs : StitchBuffers(id) /\ UNCHANGED <<app, calls, parsed, converterVars>>

Spec == Init /\ [][Next]_vars

----------------------------------------------------------------------------
(* downloadSegments under fair scheduling: every request and every            *)
(* cryptographic operation that was started eventually completes or fails     *)

\* an empty list, a list of one batch and a list of two batches
FairLists == {SegmentList(0, 0), SegmentList(2, 1), SegmentList(BATCH_SIZE + 1, 1)}

\* the continuation of the segment task of invocation id for segment k runs
TaskStep(id, k) ==
    \E t \in tasks :
        /\ t.inv = id /\ t.idx = k
        /\ \/ SegmentFetched(t) \/ SegmentFetchFailed(t)
           \/ KeyFetched(t) \/ KeyFetchFailed(t)
           \/ DecryptDone(t) \/ DecryptFailed(t)
        /\ UNCHANGED <<app, calls, parsed, converterVars>>

\* downloadSegments is called when every earlier invocation has settled (tasks
\* of those may still be suspended)
DownloadSettled(segs) ==
    /\ \A j \in DOMAIN invs : invs[j].status # "running"
    /\ DownloadSegments(segs, FALSE)
    /\ UNCHANGED <<app, calls, parsed, converterVars>>

FairNext ==
    \/ \E segs \in FairLists : DownloadSettled(segs)
    \/ \E t \in tasks : SegmentFetched(t) /\ UNCHANGED <<app, calls, parsed, converterVars>>
    \/ \E t \in tasks : SegmentFetchFailed(t) /\ UNCHANGED <<app, calls, parsed, converterVars>>
    \/ \E t \in tasks : KeyFetched(t) /\ UNCHANGED <<app, calls, parsed, converterVars>>
    \/ \E t \in tasks : KeyFetchFailed(t) /\ UNCHANGED <<app, calls, parsed, converterVars>>
    \/ \E t \in tasks : DecryptDone(t) /\ UNCHANGED <<app, calls, parsed, converterVars>>
    \/ \E t \in tasks : DecryptFailed(t) /\ UNCHANGED <<app, calls, parsed, converterVars>>
    \/ Abort /\ UNCHANGED <<app, calls, parsed, converterVars>>

FairSpec ==
    /\ Init /\ [][FairNext]_vars
    /\ \A id \in 1..(MaxInFlight + 1) : \A k \in 0..BATCH_SIZE : WF_vars(TaskStep(id, k))

----------------------------------------------------------------------------
(* App: handleDownload, handleAbort and handleConvertToMP4 driving the        *)
(* downloader above (src/App.tsx)                                             *)

\* line 161
isBusy == app.phase \in {"downloading", "converting", "stitching"}

\* line 63: (downloaded / total) * 100, kept as the fraction num / den
Percent(downloaded, total) == [num |-> downloaded * 100, den |-> total]

Whole(n) == [num |-> n, den |-> 1]

\* the segment lists fetchManifest hands to handleDownload
ManifestLists == {SegmentList(1, 1), SegmentList(BATCH_SIZE + 1, 0)}

\* info.isEncrypted of a parsed manifest
isEncrypted(segs) == \E p \in DOMAIN segs : segs[p].encryption.method # "undefined"

FreeCall == CHOOSE h \in 1..MaxCalls : \A c \in calls : c.h # h

\* (variant of Caught that treats every error alike)
CaughtAllAsError(a, err) == [a EXCEPT !.lastLog = "error", !.phase = "error"]

\* catch block of handleDownload (lines 81-89)
Caught(a, err) ==
    IF err.msg = "Download aborted"
    THEN [a EXCEPT !.lastLog = "warning", !.phase = "idle", !.percent = Whole(0)]
    ELSE [a EXCEPT !.lastLog = "error", !.phase = "error"]

\* handleDownload after `await downloadSegments(...)` settled as w (lines 69-70, 81-89)
AfterDownload(a, w) ==
    IF w.status = "resolved"
    THEN [a EXCEPT !.lastLog = "info", !.phase = "stitching", !.percent = Whole(100)]
    ELSE Caught(a, w.error)

\* What App does in a step of invocation id of the downloader: the progress
\* callback of lines 62-65 if a segment was stored, then the continuation of
\* the handleDownload call awaiting the invocation if it settled.
AppReacts(id) ==
    LET v == invs[id]
        w == invs'[id]
        a == IF w.downloadedCount > v.downloadedCount
             THEN [app EXCEPT !.downloadedSegments = w.downloadedCount,
                              !.percent = Percent(w.downloadedCount, Len(w.segments))]
             ELSE app
        awaiting == {c \in calls : c.pc = "segments" /\ c.inv = id}
    IN IF v.status = "running" /\ w.status # "running" /\ awaiting # {}
       THEN LET c == CHOOSE x \in awaiting : TRUE
            IN /\ app' = AfterDownload(a, w)
               /\ calls' = (calls \ {c}) \cup
                     (IF w.status = "resolved"
                      THEN {[c EXCEPT !.pc = "timer", !.inv = 0, !.buffers = w.results]}
                      ELSE {})
       ELSE /\ app' = a
            /\ calls' = calls

\* (variant of HandleDownload that keeps the stitched data of the last download)
HandleDownloadKeepingData(valid) ==
    /\ ~isBusy
    /\ Cardinality(calls) < MaxCalls
    /\ IF ~valid
       THEN /\ app' = [app EXCEPT !.lastLog = "error"]
            /\ UNCHANGED calls
       ELSE /\ app' = [app EXCEPT !.conversionFailed = FALSE,
                                  !.phase = "fetching_manifest", !.percent = Whole(0),
                                  !.totalSegments = 0, !.downloadedSegments = 0,
                                  !.lastLog = "info"]
            /\ calls' = calls \cup {[h |-> FreeCall, kind |-> "download", pc |-> "manifest",
                                     inv |-> 0, buffers |-> <<>>]}
    /\ UNCHANGED <<downloaderVars, parsed, converterVars>>

\* click on "Fetch & Download" (rendered when not isBusy): lines 40-52
HandleDownload(valid) ==
    /\ ~isBusy
    /\ Cardinality(calls) < MaxCalls
    /\ IF ~valid
       THEN /\ app' = [app EXCEPT !.lastLog = "error"]
            /\ UNCHANGED calls
       ELSE /\ app' = [app EXCEPT !.stitchedData = Missing, !.conversionFailed = FALSE,
                                  !.phase = "fetching_manifest", !.percent = Whole(0),
                                  !.totalSegments = 0, !.downloadedSegments = 0,
                                  !.lastLog = "info"]
            /\ calls' = calls \cup {[h |-> FreeCall, kind |-> "download", pc |-> "manifest",
                                     inv |-> 0, buffers |-> <<>>]}
    /\ UNCHANGED <<downloaderVars, parsed, converterVars>>

\* fetchManifest resolved with segs: lines 54-67 up to the await inside downloadSegments
ManifestFetched(c, segs) ==
    /\ c \in calls /\ c.kind = "download" /\ c.pc = "manifest"
    /\ DownloadSegments(segs, FALSE)
    /\ app' = [app EXCEPT !.lastLog = IF isEncrypted(segs) THEN "warning" ELSE "success",
                          !.phase = "downloading", !.totalSegments = Len(segs)]
    /\ calls' = (calls \ {c}) \cup {[c EXCEPT !.pc = "segments", !.inv = abortController']}
    /\ UNCHANGED <<parsed, converterVars>>

\* fetchManifest rejected (response not ok, master playlist, no segments): lines 81-89
ManifestFailed(c) ==
    /\ c \in calls /\ c.kind = "download" /\ c.pc = "manifest"
    /\ app' = Caught(app, [msg |-> "Failed to fetch manifest", by |-> -1])
    /\ calls' = calls \ {c}
    /\ UNCHANGED <<downloaderVars, parsed, converterVars>>

\* the 100 ms timer of line 73 fired: lines 75-79
TimerFired(c) ==
    /\ c \in calls /\ c.kind = "download" /\ c.pc = "timer"
    /\ app' = [app EXCEPT !.stitchedData = Buf(stitchSegments(c.buffers)),
                          !.lastLog = "success", !.phase = "done"]
    /\ calls' = calls \ {c}
    /\ UNCHANGED <<downloaderVars, parsed, converterVars>>

\* click on "Stop" (rendered when isBusy): handleAbort, lines 147-149
HandleAbort ==
    /\ isBusy
    /\ Abort
    /\ AppReacts(abortController)
    /\ UNCHANGED <<parsed, converterVars>>

\* click on "Convert to MP4" (rendered when stitchedData is set and the phase is
\* not converting, disabled when conversionFailed): lines 106-122. An engine
\* already loaded makes load() return at once and the conversion start.
HandleConvertToMP4 ==
    /\ app.stitchedData.has /\ app.phase # "converting" /\ ~app.conversionFailed
    /\ Cardinality(calls) < MaxCalls
    /\ app' = [app EXCEPT !.phase = "converting", !.conversionFailed = FALSE,
                          !.lastLog = "info",
                          !.percent = IF app.isLoaded THEN Whole(5) ELSE Whole(0)]
    /\ calls' = calls \cup {[h |-> FreeCall, kind |-> "convert",
                             pc |-> IF app.isLoaded THEN "convert" ELSE "load",
                             inv |-> 0, buffers |-> <<>>]}
    /\ UNCHANGED <<downloaderVars, parsed, converterVars>>

\* ffmpeg.load resolved (ffmpegService.ts lines 23-27), convertTsToMp4 starts
\* and reports 5 percent (lines 46-49)
FfmpegLoaded(c) ==
    /\ c \in calls /\ c.kind = "convert" /\ c.pc = "load"
    /\ app' = [app EXCEPT !.isLoaded = TRUE, !.lastLog = "info", !.percent = Whole(5)]
    /\ calls' = (calls \ {c}) \cup {[c EXCEPT !.pc = "convert"]}
    /\ UNCHANGED <<downloaderVars, parsed, converterVars>>

\* ffmpeg.load, or a step of the conversion, rejected: App.tsx lines 140-144
ConvertFailed(c) ==
    /\ c \in calls /\ c.kind = "convert"
    /\ app' = [app EXCEPT !.conversionFailed = TRUE, !.lastLog = "error", !.phase = "error"]
    /\ calls' = calls \ {c}
    /\ UNCHANGED <<downloaderVars, parsed, converterVars>>

\* convertTsToMp4 resolved: App.tsx lines 126-138
ConvertDone(c) ==
    /\ c \in calls /\ c.kind = "convert" /\ c.pc = "convert"
    /\ app' = [app EXCEPT !.lastLog = "success", !.phase = "done", !.percent = Whole(100)]
    /\ calls' = calls \ {c}
    /\ UNCHANGED <<downloaderVars, parsed, converterVars>>

AppNext ==
    \/ \E valid \in BOOLEAN : HandleDownload(valid)
    \/ \E c \in calls : \E segs \in ManifestLists : ManifestFetched(c, segs)
    \/ \E c \in calls : ManifestFailed(c)
    \/ \E t \in tasks : SegmentFetched(t) /\ AppReacts(t.inv) /\ UNCHANGED <<parsed, converterVars>>
    \/ \E t \in tasks : SegmentFetchFailed(t) /\ AppReacts(t.inv) /\ UNCHANGED <<parsed, converterVars>>
    \/ \E t \in tasks : KeyFetched(t) /\ AppReacts(t.inv) /\ UNCHANGED <<parsed, converterVars>>
    \/ \E t \in tasks : KeyFetchFailed(t) /\ AppReacts(t.inv) /\ UNCHANGED <<parsed, converterVars>>
    \/ \E t \in tasks : DecryptDone(t) /\ AppReacts(t.inv) /\ UNCHANGED <<parsed, converterVars>>
    \/ \E t \in tasks : DecryptFailed(t) /\ AppReacts(t.inv) /\ UNCHANGED <<parsed, converterVars>>
    \/ HandleAbort
    \/ \E c \in calls : TimerFired(c)
    \/ HandleConvertToMP4
    \/ \E c \in calls : FfmpegLoaded(c)
    \/ \E c \in calls : ConvertFailed(c)
    \/ \E c \in calls : ConvertDone(c)

AppSpec == Init /\ [][AppNext]_vars

----------------------------------------------------------------------------
(* fetchManifest: the playlist parser (src/services/downloader.ts lines 50-140) *)

\* A line of a manifest, by what the parser reads of it: kind is the prefix the
\* trimmed line starts with, value the number after the colon, method / uri /
\* iv the attributes parseAttributes finds ("" and Missing: attribute absent),
\* marker whether the line contains the text #EXT-X-STREAM-INF.
Line(kind, value, method, uri, iv, marker) ==
    [kind |-> kind, value |-> value, method |-> method, uri |-> uri, iv |-> iv,
     marker |-> marker]

\* the text of an IV attribute is a sequence of characters: 0..15 are the hex
\* digits, 16 is the letter x; HexDigits is 32 hex digits without prefix
HexDigits == [k \in 1..32 |-> (7 * k) % 16]

ManifestLines ==
    {Line("blank", 0, "", "", Missing, FALSE),
     Line("comment", 0, "", "", Missing, FALSE),
     Line("comment", 0, "", "", Missing, TRUE),
     Line("targetduration", 10, "", "", Missing, FALSE),
     Line("targetduration", 6, "", "", Missing, FALSE),
     Line("mediasequence", 100, "", "", Missing, FALSE),
     Line("key", 0, "AES-128", "k1", Missing, FALSE),
     Line("key", 0, "AES-128", "k1", Buf(<<0, 16>> \o HexDigits), FALSE),
     Line("key", 0, "AES-128", "", Missing, FALSE),
     Line("key", 0, "SAMPLE-AES", "k2", Buf(HexDigits), FALSE),
     Line("key", 0, "NONE", "", Missing, FALSE),
     Line("key", 0, "", "k1", Missing, FALSE),
     Line("map", 0, "", "init.mp4", Missing, FALSE),
     Line("map", 0, "", "", Missing, FALSE),
     Line("uri", 0, "", "a.ts", Missing, FALSE)}

Manifests == UNION {[1..n -> ManifestLines] : n \in 0..MaxLines}

\* resolveUrl(url, relativeUrl) of src/utils/url.ts against the playlist URL:
\* '' for an empty reference, an absolute URL (the key URIs) as it is, else
\* the reference joined to the base
resolveUrl(rel) ==
    IF rel = "" THEN ""
    ELSE IF rel \in KeyUris THEN rel
    ELSE IF rel = "init.mp4" THEN "http://host/path/init.mp4"
    ELSE "http://host/path/a.ts"

\* parseInt(pair, 16) stored into a Uint8Array: NaN is stored as 0, and a pair
\* whose second character is no hex digit parses as its first digit
ParseHexPair(a, b) == IF a > 15 THEN 0 ELSE IF b > 15 THEN a ELSE a * 16 + b

\* hexToBytes (lines 16-23) on a text of an even number of characters: the
\* prefix 0x is dropped, then every two characters give one byte
hexToBytes(hex) ==
    LET cleanHex == IF Len(hex) >= 2 /\ hex[1] = 0 /\ hex[2] = 16
                    THEN SubSeq(hex, 3, Len(hex)) ELSE hex
    IN [j \in 1..(Len(cleanHex) \div 2) |->
            ParseHexPair(cleanHex[2 * j - 1], cleanHex[2 * j])]

\* local variables of fetchManifest before the loop (lines 65-70)
ParseStart ==
    [segments |-> <<>>, targetDuration |-> 0, mediaSequence |-> 0,
     currentKey |-> NoEncryption, isEncrypted |-> FALSE, segmentIndex |-> 0]

\* (variant of KeyDirective in which a directive without method keeps the key)
KeyDirectiveNeverClears(st, line) ==
    IF line.method # "" /\ line.method # "NONE"
    THEN [st EXCEPT !.isEncrypted = TRUE,
                    !.currentKey = [method |-> line.method, uri |-> resolveUrl(line.uri),
                                    iv |-> IF line.iv.has
                                           THEN Buf(hexToBytes(line.iv.bytes))
                                           ELSE Missing]]
    ELSE st

\* (variant of KeyDirective in which clearing the key clears isEncrypted too)
KeyDirectiveClearingFlag(st, line) ==
    IF line.method # "" /\ line.method # "NONE"
    THEN [st EXCEPT !.isEncrypted = TRUE,
                    !.currentKey = [method |-> line.method, uri |-> resolveUrl(line.uri),
                                    iv |-> IF line.iv.has
                                           THEN Buf(hexToBytes(line.iv.bytes))
                                           ELSE Missing]]
    ELSE [st EXCEPT !.currentKey = NoEncryption, !.isEncrypted = FALSE]

\* #EXT-X-KEY (lines 84-101)
KeyDirective(st, line) ==
    IF line.method # "" /\ line.method # "NONE"
    THEN [st EXCEPT !.isEncrypted = TRUE,
                    !.currentKey = [method |-> line.method, uri |-> resolveUrl(line.uri),
                                    iv |-> IF line.iv.has
                                           THEN Buf(hexToBytes(line.iv.bytes))
                                           ELSE Missing]]
    ELSE [st EXCEPT !.currentKey = NoEncryption]

\* (variant of Push that gives an init segment the index of the next segment)
PushSharingIndex(st, line, init) ==
    [st EXCEPT !.segments = Append(@, [index |-> st.segmentIndex,
                                        url |-> resolveUrl(line.uri),
                                        isInitSegment |-> init,
                                        encryption |-> st.currentKey,
                                        seqId |-> st.mediaSequence + Len(st.segments)]),
               !.segmentIndex = IF init THEN @ ELSE @ + 1]

\* (variant of Push that numbers sequence IDs by the media segments only)
PushSeqOfMediaOnly(st, line, init) ==
    [st EXCEPT !.segments = Append(@, [index |-> st.segmentIndex,
                                        url |-> resolveUrl(line.uri),
                                        isInitSegment |-> init,
                                        encryption |-> st.currentKey,
                                        seqId |-> st.mediaSequence
                                                    + Len(SelectSeq(st.segments,
                                                          LAMBDA d : ~d.isInitSegment))]),
               !.segmentIndex = @ + 1]

\* segments.push({index: segmentIndex++, url, encryption, seqId}) (lines 107-113, 118-123)
Push(st, line, init) ==
    [st EXCEPT !.segments = Append(@, [index |-> st.segmentIndex,
                                        url |-> resolveUrl(line.uri),
                                        isInitSegment |-> init,
                                        encryption |-> st.currentKey,
                                        seqId |-> st.mediaSequence + Len(st.segments)]),
               !.segmentIndex = @ + 1]

\* (variant of ParseLine that keeps the first target duration it reads)
ParseLineKeepingFirstDuration(st, line) ==
    IF line.kind = "blank" THEN st
    ELSE IF line.kind = "targetduration"
         THEN (IF st.targetDuration = 0 THEN [st EXCEPT !.targetDuration = line.value] ELSE st)
    ELSE IF line.kind = "mediasequence" THEN [st EXCEPT !.mediaSequence = line.value]
    ELSE IF line.kind = "key" THEN KeyDirective(st, line)
    ELSE IF line.kind = "map" THEN (IF line.uri # "" THEN Push(st, line, TRUE) ELSE st)
    ELSE IF line.kind = "uri" THEN Push(st, line, FALSE)
    ELSE st

\* one iteration of the loop over the lines (lines 72-125)
ParseLine(st, line) ==
    IF line.kind = "blank" THEN st
    ELSE IF line.kind = "targetduration" THEN [st EXCEPT !.targetDuration = line.value]
    ELSE IF line.kind = "mediasequence" THEN [st EXCEPT !.mediaSequence = line.value]
    ELSE IF line.kind = "key" THEN KeyDirective(st, line)
    ELSE IF line.kind = "map" THEN (IF line.uri # "" THEN Push(st, line, TRUE) ELSE st)
    ELSE IF line.kind = "uri" THEN Push(st, line, FALSE)
    ELSE st

RECURSIVE ParseFrom(_, _, _)
ParseFrom(text, k, st) ==
    IF k > Len(text) THEN st ELSE ParseFrom(text, k + 1, ParseLine(st, text[k]))

\* (variant of IsMasterPlaylist that looks at the first line only)
IsMasterPlaylistByFirstLine(text) == Len(text) > 0 /\ text[1].marker

\* text.includes('#EXT-X-STREAM-INF') (line 60)
IsMasterPlaylist(text) == \E k \in DOMAIN text : text[k].marker

\* fetchManifest on a response that was ok, from the text on (lines 58-139)
fetchManifest(text) ==
    IF IsMasterPlaylist(text)
    THEN [outcome |-> "This is a Master Playlist", segments |-> <<>>, info |-> NoInfo]
    ELSE LET st == ParseFrom(text, 1, ParseStart)
         IN IF Len(st.segments) = 0
            THEN [outcome |-> "No segments found.", segments |-> <<>>, info |-> NoInfo]
            ELSE [outcome |-> "ok", segments |-> st.segments,
                  info |-> [segmentCount |-> Len(st.segments),
                            targetDuration |-> st.targetDuration,
                            duration |-> Len(st.segments) * st.targetDuration,
                            isEncrypted |-> st.isEncrypted]]

\* the manifests fetchManifest may be handed
ParseInit ==
    /\ invs = <<>>
    /\ tasks = {}
    /\ keyCache = EmptyCache
    /\ abortController = 0
    /\ stitched = NotStitched
    /\ app = AppInit
    /\ calls = {}
    /\ parsed \in {[NotParsed EXCEPT !.text = m] : m \in Manifests}
    /\ ffmpeg = ServiceStart
    /\ fragments = NoFragments

\* the manifest was requested (lines 51-53), the response was ok and its text
\* was parsed
FetchManifest ==
    /\ parsed.outcome = "none"
    /\ LET r == fetchManifest(parsed.text)
       IN parsed' = [parsed EXCEPT !.target = FetchUrl(parsed.useProxy, "manifest"),
                                   !.outcome = r.outcome,
                                   !.segments = r.segments,
                                   !.info = r.info]
    /\ UNCHANGED <<downloaderVars, app, calls, converterVars>>

\* the manifest response was not ok (lines 54-56)
FetchManifestNotOk ==
    /\ parsed.outcome = "none"
    /\ parsed' = [parsed EXCEPT !.target = FetchUrl(parsed.useProxy, "manifest"),
                                !.outcome = "Failed to fetch manifest"]
    /\ UNCHANGED <<downloaderVars, app, calls, converterVars>>

ParseNext == FetchManifest \/ FetchManifestNotOk

ParseSpec == ParseInit /\ [][ParseNext]_vars

----------------------------------------------------------------------------
(* The pipeline with every kind of key directive, directly or through the relay: *)
(* fetchManifest(url, useProxy), then downloadSegments(segments, ..., useProxy)  *)
(* (src/App.tsx lines 52-67, src/services/downloader.ts lines 50-234)           *)

\* the encryption field the parser gives the descriptors that follow a key line
EncOf(line) == KeyDirective(ParseStart, line).currentKey

Descriptor(index, enc, seqId) ==
    [index |-> index, url |-> index, encryption |-> enc, seqId |-> seqId]

KeyLine(method, uri, iv) == Line("key", 0, method, uri, iv, FALSE)

\* descriptor lists as fetchManifest returns them: under a key with an explicit
\* IV (with and without 0x), under an AES-128 key without URI, under a
\* SAMPLE-AES key, and under a key without IV at small and large sequence IDs
CipherLists ==
    {<<Descriptor(0, EncOf(KeyLine("AES-128", "k1", Buf(<<0, 16>> \o HexDigits))), 7),
       Descriptor(1, EncOf(KeyLine("AES-128", "k1", Buf(<<0, 16>> \o HexDigits))), 8)>>,
     <<Descriptor(0, EncOf(KeyLine("AES-128", "k2", Buf(HexDigits))), 7),
       Descriptor(1, NoEncryption, 8)>>,
     <<Descriptor(0, EncOf(KeyLine("AES-128", "", Missing)), 7),
       Descriptor(1, EncOf(KeyLine("AES-128", "k1", Missing)), 8)>>,
     <<Descriptor(0, EncOf(KeyLine("SAMPLE-AES", "k2", Buf(HexDigits))), 7),
       Descriptor(1, NoEncryption, 8)>>,
     <<Descriptor(0, EncOf(KeyLine("AES-128", "k1", Missing)), 7),
       Descriptor(1, EncOf(KeyLine("AES-128", "k1", Missing)), 16777474),
       Descriptor(2, EncOf(KeyLine("AES-128", "k1", Missing)), 2147483647)>>}

\* manifests: a key directive and a segment line; and a media-sequence
\* directive whose number parseInt reads as -1, a segment line, a key directive
\* and a second segment line
CipherManifests ==
    {<<KeyLine("AES-128", "k1", Missing), Line("uri", 0, "", "a.ts", Missing, FALSE)>>,
     <<Line("mediasequence", -1, "", "", Missing, FALSE),
       Line("uri", 0, "", "a.ts", Missing, FALSE),
       KeyLine("AES-128", "k1", Missing),
       Line("uri", 0, "", "a.ts", Missing, FALSE)>>}

\* the list fetchManifest returned, as handleDownload hands it on (App.tsx
\* line 60; the segment's index stands for its URL as in the lists above)
ParsedList ==
    [p \in DOMAIN parsed.segments |->
        Descriptor(parsed.segments[p].index, parsed.segments[p].encryption,
                   parsed.segments[p].seqId)]

CipherInit ==
    /\ invs = <<>>
    /\ tasks = {}
    /\ keyCache = EmptyCache
    /\ abortController = 0
    /\ stitched = NotStitched
    /\ app = AppInit
    /\ calls = {}
    /\ parsed \in {[NotParsed EXCEPT !.text = m, !.useProxy = p] :
                      m \in CipherManifests, p \in BOOLEAN}
    /\ ffmpeg = ServiceStart
    /\ fragments = NoFragments

\* handleDownload hands the list and the same useProxy to downloadSegments; here
\* only once every task of the previous download has ended (downloads that
\* overlap are explored by Spec)
DownloadParsed(segs) ==
    /\ parsed.outcome = "ok"
    /\ Alive = {}
    /\ DownloadSegments(segs, parsed.useProxy)
    /\ UNCHANGED <<app, calls, parsed, converterVars>>

CipherNext ==
    \/ FetchManifest
    \/ FetchManifestNotOk
    \/ \E segs \in CipherLists \cup {ParsedList} : DownloadParsed(segs)
    \/ \E t \in tasks : SegmentFetched(t) /\ UNCHANGED <<app, calls, parsed, converterVars>>
    \/ \E t \in tasks : SegmentFetchFailed(t) /\ UNCHANGED <<app, calls, parsed, converterVars>>
    \/ \E t \in tasks : KeyFetched(t) /\ UNCHANGED <<app, calls, parsed, converterVars>>
    \/ \E t \in tasks : KeyFetchFailed(t) /\ UNCHANGED <<app, calls, parsed, converterVars>>
    \/ \E t \in tasks : DecryptDone(t) /\ UNCHANGED <<app, calls, parsed, converterVars>>
    \/ \E t \in tasks : DecryptFailed(t) /\ UNCHANGED <<app, calls, parsed, converterVars>>
    \/ Abort /\ UNCHANGED <<app, calls, parsed, converterVars>>
    \/ \E id \in DOMAIN invs : StitchBuffers(id) /\ UNCHANGED <<app, calls, parsed, converterVars>>

CipherSpec == CipherInit /\ [][CipherNext]_vars

----------------------------------------------------------------------------
(* FFmpegService: load and convertTsToMp4 (src/services/ffmpegService.ts)     *)
(* ffmpeg.engine numbers the FFmpeg objects load() creates (this.ffmpeg);     *)
(* loading / ready: the engines whose load is awaited / has succeeded; files: *)
(* the engine's file system; convs: the convertTsToMp4 calls.                 *)

Max(a, b) == IF a > b THEN a ELSE b

\* event.progress of an engine progress event: a number (in seventeenths, so
\* that 5 + ratio * 85 is 5 + 5 * n), NaN, or absent
ProgressEvents ==
    {[kind |-> "number", n |-> k] : k \in {-17, 0, 8, 17, 34}}
        \cup {[kind |-> "NaN", n |-> 0], [kind |-> "undefined", n |-> 0]}

\* lines 53-56: ratio = event.progress ?? 0; Math.min(90, Math.max(5, 5 + ratio * 85)),
\* which is NaN for a NaN ratio
clampedPercent(ev) ==
    LET ratio == IF ev.kind = "undefined" THEN 0 ELSE ev.n
    IN [nan |-> ev.kind = "NaN", n |-> Min(90, Max(5, 5 + 5 * ratio))]

\* onProgress(value), called by the statement `by` of convertTsToMp4
Report(c, value, by) ==
    [c EXCEPT !.reported = Append(@, [value |-> value, by |-> by])]

\* the awaits of convertTsToMp4 before which progressHandler is still set
BeforeExecEnd == {"write", "exec"}

\* (variant of progressHandler that reports every event)
progressHandlerUnconditional(c, ev) ==
    LET p == clampedPercent(ev)
    IN IF ~p.nan
       THEN Report([c EXCEPT !.maxProgress = p.n], p.n, "event")
       ELSE [c EXCEPT !.late = @ \/ c.pc \notin BeforeExecEnd]

\* progressHandler of call c on event ev (lines 51-63); late: the handler was
\* called after the engine run and reported nothing
progressHandler(c, ev) ==
    LET p == clampedPercent(ev)
    IN IF ~p.nan /\ p.n > c.maxProgress
       THEN Report([c EXCEPT !.maxProgress = p.n], p.n, "event")
       ELSE [c EXCEPT !.late = @ \/ c.pc \notin BeforeExecEnd]

\* convertTsToMp4 up to its first await (lines 39-69)
NewCall(onProgress) ==
    [pc |-> "write", onProgress |-> onProgress,
     maxProgress |-> IF onProgress THEN 5 ELSE 0,
     reported |-> IF onProgress THEN <<[value |-> 5, by |-> "start"]>> ELSE <<>>,
     listening |-> onProgress, late |-> FALSE]

Finished == {"resolved", "rejected"}

\* the calls still of interest when a new one is made: those not settled and
\* those whose handler is still attached to the engine
Kept == {id \in DOMAIN ffmpeg.convs :
            ffmpeg.convs[id].pc \notin Finished \/ ffmpeg.convs[id].listening}

\* this.ffmpeg.off?.('progress', progressHandler) (lines 90, 118)
Off(c) == [c EXCEPT !.listening = @ /\ ~ffmpeg.hasOff]

\* load(): lines 8-23 up to `await this.ffmpeg.load`
Load ==
    /\ IF ffmpeg.isLoaded
       THEN UNCHANGED ffmpeg
       ELSE /\ ffmpeg.engine < MaxEngines
            /\ ffmpeg' = [ffmpeg EXCEPT !.engine = @ + 1,
                                        !.loading = @ \cup {ffmpeg.engine + 1}]
    /\ UNCHANGED <<downloaderVars, app, calls, parsed, fragments>>

\* the engine e finished loading: line 27
LoadSucceeded(e) ==
    /\ e \in ffmpeg.loading
    /\ ffmpeg' = [ffmpeg EXCEPT !.isLoaded = TRUE, !.loading = @ \ {e},
                                !.ready = @ \cup {e}]
    /\ UNCHANGED <<downloaderVars, app, calls, parsed, fragments>>

\* the load of engine e failed: lines 28-31
LoadFailed(e) ==
    /\ e \in ffmpeg.loading
    /\ ffmpeg' = [ffmpeg EXCEPT !.loading = @ \ {e}]
    /\ UNCHANGED <<downloaderVars, app, calls, parsed, fragments>>

\* convertTsToMp4(tsData, onProgress) is called: lines 34-69 up to the await
ConvertTsToMp4(onProgress) ==
    /\ IF ffmpeg.engine = 0 \/ ~ffmpeg.isLoaded
       THEN ffmpeg' = [ffmpeg EXCEPT !.lastConvert = "FFmpeg engine not loaded"]
       ELSE /\ Cardinality(Kept) < MaxConverts
            /\ LET id == CHOOSE k \in 1..MaxConverts :
                            k \notin Kept /\ \A j \in 1..(k - 1) : j \in Kept
               IN ffmpeg' = [ffmpeg EXCEPT
                      !.lastConvert = "started",
                      !.convs = [j \in Kept \cup {id} |->
                                    IF j = id THEN NewCall(onProgress) ELSE ffmpeg.convs[j]]]
    /\ UNCHANGED <<downloaderVars, app, calls, parsed, fragments>>

\* the engine emits a progress event: every attached handler runs
ProgressEvent(ev) ==
    /\ \E id \in DOMAIN ffmpeg.convs : ffmpeg.convs[id].listening
    /\ ffmpeg' = [ffmpeg EXCEPT !.convs =
                     [id \in DOMAIN @ |->
                         IF @[id].listening THEN progressHandler(@[id], ev) ELSE @[id]]]
    /\ UNCHANGED <<downloaderVars, app, calls, parsed, fragments>>

\* writeFile(inputName, tsData) resolved: lines 69-79
WriteFileDone(id) ==
    /\ id \in DOMAIN ffmpeg.convs /\ ffmpeg.convs[id].pc = "write"
    /\ ffmpeg.engine \in ffmpeg.ready
    /\ LET c == ffmpeg.convs[id]
           m == Max(c.maxProgress, 10)
       IN ffmpeg' = [ffmpeg EXCEPT
              !.files = @ \cup {"input.ts"},
              !.convs[id] = IF c.onProgress
                            THEN Report([c EXCEPT !.pc = "exec", !.maxProgress = m], m, "write")
                            ELSE [c EXCEPT !.pc = "exec"]]
    /\ UNCHANGED <<downloaderVars, app, calls, parsed, fragments>>

\* exec resolved (lines 79-103); it writes the output file if the input file is
\* there and the engine could convert it (ok)
ExecDone(id, ok) ==
    /\ id \in DOMAIN ffmpeg.convs /\ ffmpeg.convs[id].pc = "exec"
    /\ LET c == ffmpeg.convs[id]
           m == Max(c.maxProgress, 95)
       IN ffmpeg' = [ffmpeg EXCEPT
              !.files = IF ok /\ "input.ts" \in @ THEN @ \cup {"output.mp4"} ELSE @,
              !.convs[id] = IF c.onProgress
                            THEN Report([Off(c) EXCEPT !.pc = "read", !.maxProgress = m], m, "exec")
                            ELSE [c EXCEPT !.pc = "read"]]
    /\ UNCHANGED <<downloaderVars, app, calls, parsed, fragments>>

\* readFile(outputName) resolved: lines 103-109
ReadFileDone(id) ==
    /\ id \in DOMAIN ffmpeg.convs /\ ffmpeg.convs[id].pc = "read"
    /\ "output.mp4" \in ffmpeg.files
    /\ LET c == ffmpeg.convs[id]
       IN ffmpeg' = [ffmpeg EXCEPT
              !.convs[id] = IF c.onProgress
                            THEN Report([c EXCEPT !.pc = "delete input"], 100, "read")
                            ELSE [c EXCEPT !.pc = "delete input"]]
    /\ UNCHANGED <<downloaderVars, app, calls, parsed, fragments>>

\* deleteFile(inputName) resolved: lines 109-110
DeleteInputDone(id) ==
    /\ id \in DOMAIN ffmpeg.convs /\ ffmpeg.convs[id].pc = "delete input"
    /\ "input.ts" \in ffmpeg.files
    /\ ffmpeg' = [ffmpeg EXCEPT !.files = @ \ {"input.ts"},
                                !.convs[id].pc = "delete output"]
    /\ UNCHANGED <<downloaderVars, app, calls, parsed, fragments>>

\* deleteFile(outputName) resolved: lines 110-112, the call returns
DeleteOutputDone(id) ==
    /\ id \in DOMAIN ffmpeg.convs /\ ffmpeg.convs[id].pc = "delete output"
    /\ "output.mp4" \in ffmpeg.files
    /\ ffmpeg' = [ffmpeg EXCEPT !.files = @ \ {"output.mp4"},
                                !.convs[id].pc = "resolved"]
    /\ UNCHANGED <<downloaderVars, app, calls, parsed, fragments>>

\* the awaited engine operation rejected: the finally block (lines 113-123)
\* detaches the handler if progressHandler is still set, the call rejects
StepFailed(id) ==
    /\ id \in DOMAIN ffmpeg.convs /\ ffmpeg.convs[id].pc \notin Finished
    /\ LET c == ffmpeg.convs[id]
       IN ffmpeg' = [ffmpeg EXCEPT
              !.convs[id] = [(IF c.onProgress /\ c.pc \in BeforeExecEnd THEN Off(c) ELSE c)
                                EXCEPT !.pc = "rejected"]]
    /\ UNCHANGED <<downloaderVars, app, calls, parsed, fragments>>

\* the engine object may or may not have an off method
FfmpegInit ==
    /\ invs = <<>>
    /\ tasks = {}
    /\ keyCache = EmptyCache
    /\ abortController = 0
    /\ stitched = NotStitched
    /\ app = AppInit
    /\ calls = {}
    /\ parsed = NotParsed
    /\ ffmpeg \in {[ServiceStart EXCEPT !.hasOff = b] : b \in BOOLEAN}
    /\ fragments = NoFragments

FfmpegNext ==
    \/ Load
    \/ \E e \in ffmpeg.loading : LoadSucceeded(e)
    \/ \E e \in ffmpeg.loading : LoadFailed(e)
    \/ \E onProgress \in BOOLEAN : ConvertTsToMp4(onProgress)
    \/ \E ev \in ProgressEvents : ProgressEvent(ev)
    \/ \E id \in DOMAIN ffmpeg.convs : WriteFileDone(id)
    \/ \E id \in DOMAIN ffmpeg.convs : \E ok \in BOOLEAN : ExecDone(id, ok)
    \/ \E id \in DOMAIN ffmpeg.convs : ReadFileDone(id)
    \/ \E id \in DOMAIN ffmpeg.convs : DeleteInputDone(id)
    \/ \E id \in DOMAIN ffmpeg.convs : DeleteOutputDone(id)
    \/ \E id \in DOMAIN ffmpeg.convs : StepFailed(id)

FfmpegSpec == FfmpegInit /\ [][FfmpegNext]_vars

----------------------------------------------------------------------------
(* TransmuxerService.normalizeTimestampsInPlace: downloader.ts lines 335-388.
   A segment is a sequence of bytes; a time is the big-endian byte sequence
   that the DataView reads or writes, a BigInt is kept as eight such bytes. *)

MaxFragments == 3

\* the type 'tfdt', 0x74666474 (lines 350-353)
TFDT == <<116, 102, 100, 116>>

RECURSIVE Pow2(_)
Pow2(n) == IF n = 0 THEN 1 ELSE 2 * Pow2(n - 1)

\* the test of lines 349-354 at the (0-based) position i
IsTfdtAt(seg, i) == \A k \in 1..4 : seg[i + k] = TFDT[k]

\* the inner loop of line 347: the first position below seg.length - 16 that
\* holds the signature, -1 when the loop ends without finding one
tfdtPos(seg) ==
    LET found == {i \in 0..(Len(seg) - 17) : IsTfdtAt(seg, i)}
    IN IF found = {} THEN -1 ELSE CHOOSE i \in found : \A j \in found : i <= j

\* BigInt(originalTime) of an unsigned 32-bit time (lines 373-376)
Wide(t) == <<0, 0, 0, 0>> \o t

\* a - b - borrow, modulo 256^Len(a)
RECURSIVE Minus(_, _, _)
Minus(a, b, borrow) ==
    IF a = <<>>
    THEN <<>>
    ELSE LET n == Len(a)
             d == a[n] - b[n] - borrow
         IN Append(Minus(SubSeq(a, 1, n - 1), SubSeq(b, 1, n - 1), IF d < 0 THEN 1 ELSE 0),
                   (d + 256) % 256)

\* a < b
RECURSIVE Below(_, _)
Below(a, b) == a # <<>> /\ (a[1] < b[1] \/ (a[1] = b[1] /\ Below(Tail(a), Tail(b))))

\* the number of significant bits of m
RECURSIVE BitLength(_)
BitLength(m) ==
    IF m = <<>> THEN 0
    ELSE IF m[1] = 0 THEN BitLength(Tail(m))
    ELSE 8 * (Len(m) - 1) + (CHOOSE k \in 1..8 : Pow2(k - 1) <= m[1] /\ m[1] < Pow2(k))

\* Number(m) of a BigInt magnitude m below 2^64, as its low 32 bits: exact up
\* to 53 significant bits, beyond them rounded to the nearest multiple of
\* unit = 2^(BitLength - 53), ties to the even multiple (line 379)
NumberLow32(m) ==
    LET drop == BitLength(m) - 53
        unit == Pow2(drop)
        low16 == m[7] * 256 + m[8]
        q == low16 \div unit
        rem == low16 % unit
        up == IF 2 * rem > unit \/ (2 * rem = unit /\ q % 2 = 1) THEN 1 ELSE 0
        r == (q + up) * unit
        high == (m[5] * 256 + m[6] + r \div 65536) % 65536
    IN IF drop <= 0
       THEN SubSeq(m, 5, 8)
       ELSE <<high \div 256, high % 256, (r % 65536) \div 256, r % 256>>

\* (variant of newTime64 that leaves the time as it was read)
newTime64Unshifted(originalTime, baseTimeOffset) == originalTime

\* lines 366-367: originalTime - baseTimeOffset, written by setBigUint64
\* (modulo 2^64)
newTime64(originalTime, baseTimeOffset) == Minus(originalTime, baseTimeOffset, 0)

\* lines 379-380: Number(BigInt(originalTime) - baseTimeOffset), written by
\* setUint32 (the double, modulo 2^32)
newTime32(originalTime, baseTimeOffset) ==
    LET negative == Below(originalTime, baseTimeOffset)
        magnitude == IF negative THEN Minus(baseTimeOffset, originalTime, 0)
                     ELSE Minus(originalTime, baseTimeOffset, 0)
        low == NumberLow32(magnitude)
    IN IF negative THEN Minus(<<0, 0, 0, 0>>, low, 0) ELSE low

\* DataView.setBigUint64 / setUint32: the bytes of t at the position pos
Written(seg, pos, t) ==
    [k \in 1..Len(seg) |-> IF k > pos /\ k <= pos + Len(t) THEN t[k - pos] ELSE seg[k]]

NoBase == [null |-> TRUE, time |-> <<>>]

\* the time read at lines 361 and 371, as a BigInt
ReadTime(seg) ==
    LET timePos == tfdtPos(seg) + 8
    IN IF seg[tfdtPos(seg) + 5] = 1
       THEN SubSeq(seg, timePos + 1, timePos + 8)
       ELSE Wide(SubSeq(seg, timePos + 1, timePos + 4))

\* the loop over the segments (line 338) from the segment at the head, with
\* baseTimeOffset as the earlier segments left it
RECURSIVE PatchFrom(_, _)
PatchFrom(segments, baseTimeOffset) ==
    IF segments = <<>>
    THEN <<>>
    ELSE LET seg == Head(segments)
             i == tfdtPos(seg)
         IN IF i < 0
            THEN <<seg>> \o PatchFrom(Tail(segments), baseTimeOffset)
            ELSE LET version == seg[i + 5]
                     timePos == i + 8
                     originalTime == ReadTime(seg)
                     base == IF baseTimeOffset.null
                             THEN [null |-> FALSE, time |-> originalTime]
                             ELSE baseTimeOffset
                     newTime == IF version = 1
                                THEN newTime64(originalTime, base.time)
                                ELSE newTime32(originalTime, base.time)
                 IN <<Written(seg, timePos, newTime)>> \o PatchFrom(Tail(segments), base)

normalizeTimestampsInPlace(segments) == PatchFrom(segments, NoBase)

\* a box of type tfdt: size, type, version, flags, time
Box(version, time) == <<0, 0, 0, 12 + Len(time)>> \o TFDT \o <<version, 0, 0, 0>> \o time

Padding(n) == [k \in 1..n |-> 170]

\* the data segments handed over: boxes of version 1 and 0 with small and
\* large times, a box of another version, a box in the last 16 bytes, a
\* segment with two boxes and one with none
FragmentPool ==
    { Box(1, <<0, 0, 0, 0, 0, 0, 0, 9>>) \o Padding(1),
      Box(1, <<0, 0, 0, 1, 0, 0, 0, 0>>) \o Padding(1),
      Box(1, <<1, 0, 0, 0, 0, 0, 0, 0>>) \o Padding(1),
      Box(1, <<0, 32, 0, 0, 0, 0, 0, 1>>) \o Padding(2),
      Box(0, <<0, 0, 0, 1>>) \o Padding(5),
      Box(0, <<0, 0, 1, 0>>) \o Padding(5),
      Box(0, <<255, 255, 255, 255>>) \o Padding(6),
      Box(2, <<0, 0, 0, 5>>) \o Padding(5),
      Box(0, <<0, 0, 0, 7>>) \o Padding(4),
      Box(0, <<0, 0, 0, 3>>) \o Box(0, <<0, 0, 0, 4>>) \o Padding(5),
      Padding(3) }

\* convertTsToMp4 hands the data segments over (downloader.ts line 302)
NormalizeTimestampsInPlace ==
    /\ ~fragments.called
    /\ fragments' = [fragments EXCEPT !.output = normalizeTimestampsInPlace(fragments.input),
                                      !.called = TRUE]
    /\ UNCHANGED <<downloaderVars, app, calls, parsed, ffmpeg>>

NormalizeInit ==
    /\ invs = <<>>
    /\ tasks = {}
    /\ keyCache = EmptyCache
    /\ abortController = 0
    /\ stitched = NotStitched
    /\ app = AppInit
    /\ calls = {}
    /\ parsed = NotParsed
    /\ ffmpeg = ServiceStart
    /\ \E n \in 0..MaxFragments :
          \E segments \in [1..n -> FragmentPool] :
             fragments = [NoFragments EXCEPT !.input = segments]

NormalizeNext == NormalizeTimestampsInPlace

NormalizeSpec == NormalizeInit /\ [][NormalizeNext]_vars

----------------------------------------------------------------------------
(* Properties *)

Ids == DOMAIN invs

\* the bytes the code is to place at results[seg.index]
Expected(seg) == IF NeedsDecrypt(seg) THEN Decrypted(seg) ELSE Body(seg.url)

\* abort() reached invocation id while it had not settled
AbortedInFlight(id) == invs[id].abortedAt # -1

RejectedWith(id, err) == invs[id].status = "rejected" /\ invs[id].error = err

\* C1: whenever downloadSegments resolves, the returned array holds a buffer at
\* every segment index, whatever the timing of abort() and of task failures.
C1_ResolvedComplete ==
    \A id \in Ids :
        invs[id].status = "resolved" =>
            \A k \in DOMAIN invs[id].results : invs[id].results[k].has

\* C2: an invocation that abort() reached while it was in flight never resolves:
\* once settled it has failed with 'Download aborted'.
C2_AbortedNeverResolves ==
    \A id \in Ids :
        (AbortedInFlight(id) /\ invs[id].status # "running") =>
            RejectedWith(id, AbortedError)

\* C3: if abort() arrives while batch k is in flight and a batch k+1 exists, the
\* invocation fails with Aborted (it never resolves, never fails otherwise) and no
\* fetch is ever issued for a segment of batch k+1 or later.
C3_BatchBoundary ==
    \A id \in Ids :
        LET v == invs[id]
            next == v.abortedAt + BATCH_SIZE
        IN (AbortedInFlight(id) /\ next < Len(v.segments)) =>
              /\ v.status # "resolved"
              /\ v.status = "rejected" => v.error = AbortedError
              /\ \A k \in next..(Len(v.segments) - 1) :
                    /\ v.fetches[k] = 0
                    /\ ~v.results[k].has
                    /\ \A t \in tasks : ~(t.inv = id /\ t.idx = k)

\* abort() arrived during the second of three batches, after segments 0-4 had
\* completed, and the invocation failed with Aborted
C3_Witness ==
    \E id \in Ids :
        /\ invs[id].abortedAt = BATCH_SIZE
        /\ invs[id].abortedAt + BATCH_SIZE < Len(invs[id].segments)
        /\ invs[id].downloadedCount >= BATCH_SIZE
        /\ RejectedWith(id, AbortedError)

\* concatenation of the expected bytes of segments k.., in index order
RECURSIVE InOrder(_, _)
InOrder(segs, k) ==
    IF k > Len(segs) THEN <<>> ELSE Expected(segs[k]) \o InOrder(segs, k + 1)

\* C4: order invariance: whatever the completion order inside the batches, a
\* resolved invocation that was not cancelled holds the buffer of segment i at
\* position i, and stitching it gives the segments' bytes in index order.
C4_OrderInvariance ==
    \A id \in Ids :
        (invs[id].status = "resolved" /\ ~AbortedInFlight(id)) =>
            /\ \A k \in DOMAIN invs[id].results :
                  invs[id].results[k] = Buf(Expected(SegOf(invs[id], k)))
            /\ (stitched.has /\ stitched.of = id) =>
                  stitched.bytes = InOrder(invs[id].segments, 1)

\* a three-batch invocation in which some segment completed before a segment of
\* lower index resolved and was stitched
C4_Witness ==
    \E id \in Ids :
        /\ invs[id].status = "resolved" /\ ~AbortedInFlight(id)
        /\ invs[id].outOfOrder
        /\ Len(invs[id].segments) > 2 * BATCH_SIZE
        /\ stitched.has /\ stitched.of = id

\* the entries of an array that stitchSegments keeps
Surviving(b) == {k \in DOMAIN b : b[k].has /\ Len(b[k].bytes) > 0}

RECURSIVE SumLen(_, _)
SumLen(b, ks) ==
    IF ks = {} THEN 0
    ELSE LET k == CHOOSE x \in ks : TRUE
         IN Len(b[k].bytes) + SumLen(b, ks \ {k})

\* C5: stitchSegments returns the concatenation, in ascending index, of exactly
\* the entries that are present and non-empty: its length is the sum of their
\* lengths, each of them lies at the offset given by the kept entries before
\* it, and an array without such entries gives an empty buffer.
C5_Stitch ==
    stitched.has =>
        LET b == stitched.input
            keep == Surviving(b)
            Offset(k) == SumLen(b, {j \in keep : j < k})
        IN /\ Len(stitched.bytes) = SumLen(b, keep)
           /\ DOMAIN stitched.bytes = 1..SumLen(b, keep)
           /\ \A k \in keep : \A j \in 1..Len(b[k].bytes) :
                 stitched.bytes[Offset(k) + j] = b[k].bytes[j]

\* an array with a hole, an empty buffer and several kept buffers was stitched
C5_Witness ==
    /\ stitched.has
    /\ LET b == stitched.input
       IN /\ \E k \in DOMAIN b : ~b[k].has
          /\ \E k \in DOMAIN b : b[k].has /\ b[k].bytes = <<>>
          /\ Cardinality(Surviving(b)) >= 3
          /\ \E k \in Surviving(b) : Len(b[k].bytes) > 1

\* C6: within one downloadSegments session each key URI is fetched over the
\* network at most once.
C6_KeyFetchedOnce ==
    \A id \in Ids : \A u \in KeyUris : invs[id].keyFetches[u] <= 1

\* C7: while a session runs that was started after every earlier one had
\* settled, every key cache entry was inserted by a task of that session.
C7_CacheOfThisSession ==
    LET cur == abortController IN
    (/\ cur \in DOMAIN invs
     /\ invs[cur].status = "running"
     /\ invs[cur].startedAlone) =>
        \A u \in KeyUris : keyCache[u].has => keyCache[u].by = cur

\* C8: a task failure thrown while cancellation was not requested rejects the
\* invocation with the error of the first such failure; nothing is returned, no
\* segment is fetched twice and no later batch is started.
C8_FirstFailureIsFatal ==
    \A id \in Ids :
        LET v == invs[id] IN
        v.firstFail # NoError =>
            /\ RejectedWith(id, v.firstFail)
            /\ \A k \in DOMAIN v.fetches :
                  /\ v.fetches[k] <= 1
                  /\ k >= v.i + BATCH_SIZE => v.fetches[k] = 0
            /\ \A t \in tasks : t.inv = id => t.idx < v.i + BATCH_SIZE

\* in the first of three batches a task failed after others had completed, and
\* another task of the batch failed after it
C8_Witness ==
    \E id \in Ids :
        /\ invs[id].firstFail # NoError
        /\ RejectedWith(id, invs[id].firstFail)
        /\ invs[id].i = 0 /\ Len(invs[id].segments) > BATCH_SIZE
        /\ invs[id].downloadedCount > 0
        /\ ~invs[id].aborted
        /\ \E k \in 0..(BATCH_SIZE - 1) :
              /\ k # invs[id].firstFail.by
              /\ ~invs[id].results[k].has
              /\ \A t \in tasks : ~(t.inv = id /\ t.idx = k)

\* C9: once abort() has reached an invocation that had not failed, the
\* invocation never rejects with an error other than Aborted.
C9_FailureAfterAbortSuppressed ==
    \A id \in Ids :
        AbortedInFlight(id) =>
            ~(invs[id].status = "rejected" /\ invs[id].error # AbortedError)

\* a task failed after abort() and the invocation failed with Aborted
C9_Witness ==
    \E id \in Ids :
        /\ AbortedInFlight(id)
        /\ invs[id].swallowed
        /\ RejectedWith(id, AbortedError)

\* C10: no network request of the download that is in flight when abort() is
\* called runs to normal completion afterwards.
C10_NoCompletionAfterAbort ==
    \A id \in Ids : invs[id].lateKeys = 0

\* the segment tasks of invocation id suspended at their segment fetch
Outstanding(id) == {t \in tasks : t.inv = id /\ t.stage = "fetch"}

\* C11: within one invocation the segments are processed in consecutive batches
\* of at most BATCH_SIZE in list order: at most BATCH_SIZE segment fetches are
\* outstanding, every task belongs to the batch at the loop index, every segment
\* of an earlier batch was fetched once and no segment of a later batch at all.
C11_Batches ==
    \A id \in Ids :
        LET v == invs[id] IN
        /\ Cardinality(Outstanding(id)) <= BATCH_SIZE
        /\ v.i % BATCH_SIZE = 0
        /\ \A t \in tasks : t.inv = id => (t.idx >= v.i /\ t.idx < v.i + BATCH_SIZE)
        /\ \A k \in DOMAIN v.fetches :
              /\ k < v.i => v.fetches[k] = 1
              /\ k >= v.i + BATCH_SIZE => v.fetches[k] = 0

\* the second batch of a longer list is in flight with BATCH_SIZE fetches
\* outstanding, after every segment of the first batch completed
C11_Witness ==
    \E id \in Ids :
        /\ invs[id].status = "running"
        /\ invs[id].i = BATCH_SIZE
        /\ invs[id].downloadedCount = BATCH_SIZE
        /\ Cardinality(Outstanding(id)) = BATCH_SIZE
        /\ Len(invs[id].segments) > 2 * BATCH_SIZE

\* C12: an invocation fails with Aborted only if abort() was called while it was
\* in flight (its token is fresh: calls of abort() made before it began do not
\* reach it); a token already signalled governs no fetch any more, so a
\* repeated abort() finds nothing to cancel; and before the first download
\* there is no controller and nothing in flight for abort() to act on.
C12_FreshToken ==
    /\ \A id \in Ids :
          /\ RejectedWith(id, AbortedError) => AbortedInFlight(id)
          /\ invs[id].aborted => Outstanding(id) = {}
    /\ abortController = 0 => (invs = <<>> /\ tasks = {})

\* abort() signalled the token of an earlier invocation (one of its tasks is
\* still suspended), and the invocation started after it resolved untouched
C12_Witness ==
    \E old \in Ids : \E cur \in Ids :
        /\ old # cur /\ cur = abortController
        /\ invs[old].aborted
        /\ \E t \in tasks : t.inv = old
        /\ ~invs[cur].aborted
        /\ invs[cur].status = "resolved"
        /\ Len(invs[cur].segments) > 0

\* the handleDownload calls between their start and their settlement
Downloads == {c \in calls : c.kind = "download"}

\* C13: through the UI a second handleDownload never starts while an earlier one
\* has not settled: at most one handleDownload call is in progress.
C13_OneDownloadAtATime == Cardinality(Downloads) <= 1

PhaseEdges ==
    {<<"idle", "fetching_manifest">>, <<"fetching_manifest", "downloading">>,
     <<"downloading", "stitching">>, <<"stitching", "converting">>,
     <<"converting", "done">>}

\* C14: the progress phase only changes along idle -> fetching_manifest ->
\* downloading -> stitching -> converting -> done, or from a non-idle phase to
\* error.
C14_PhaseEdges ==
    [][\/ app'.phase = app.phase
       \/ <<app.phase, app'.phase>> \in PhaseEdges
       \/ (app.phase # "idle" /\ app'.phase = "error")]_vars

\* call c is in progress before the step and no longer after it
Ended(c) == \A d \in calls' : d.h # c.h

\* C15: a handleDownload call that ends because downloadSegments failed with
\* Aborted leaves phase idle, percent 0 and a warning in the log; one that ends
\* because fetchManifest or downloadSegments failed otherwise leaves phase error.
C15_AbortedIsNotAnError ==
    [][\A c \in Downloads :
          Ended(c) =>
             /\ (c.pc = "segments" /\ invs'[c.inv].error = AbortedError) =>
                   (/\ app'.phase = "idle"
                    /\ app'.percent = Whole(0)
                    /\ app'.lastLog = "warning")
             /\ (c.pc = "manifest" \/
                 (c.pc = "segments" /\ invs'[c.inv].error # AbortedError)) =>
                   (app'.phase = "error" /\ app'.lastLog = "error")]_vars

\* a download was stopped after some segments had been stored and failed with
\* Aborted: the phase is idle again, with a warning
C15_Witness ==
    /\ abortController \in DOMAIN invs
    /\ RejectedWith(abortController, AbortedError)
    /\ app.phase = "idle" /\ app.lastLog = "warning"
    /\ app.downloadedSegments > 0
    /\ calls = {}

----------------------------------------------------------------------------
(* Properties of fetchManifest *)

\* the response was ok, so the text went through the parser
TextParsed == parsed.outcome \notin {"none", "Failed to fetch manifest"}

\* a line for which the loop pushes a descriptor
Emits(line) == line.kind = "uri" \/ (line.kind = "map" /\ line.uri # "")

\* the line of the text that emitted the descriptor at list position p
LineOf(text, p) ==
    CHOOSE l \in DOMAIN text :
        Emits(text[l]) /\ Cardinality({m \in 1..l : Emits(text[m])}) = p

\* the last line of the given kind before line l (0: none)
LastBefore(text, kind, l) ==
    LET ks == {k \in 1..(l - 1) : text[k].kind = kind}
    IN IF ks = {} THEN 0 ELSE CHOOSE k \in ks : \A m \in ks : m <= k

\* the encryption info of the key directive in force at line l
KeyInForceAt(text, l) ==
    LET k == LastBefore(text, "key", l)
    IN IF k = 0 \/ text[k].method \in {"", "NONE"}
       THEN NoEncryption
       ELSE [method |-> text[k].method, uri |-> resolveUrl(text[k].uri),
             iv |-> IF text[k].iv.has THEN Buf(hexToBytes(text[k].iv.bytes)) ELSE Missing]

\* the media-sequence value in effect at line l
MediaSequenceAt(text, l) ==
    LET k == LastBefore(text, "mediasequence", l)
    IN IF k = 0 THEN 0 ELSE text[k].value

\* C16: a manifest whose text contains #EXT-X-STREAM-INF makes fetchManifest fail
\* with the master-playlist error whatever its other lines are, and no segment
\* list is returned.
C16_MasterPlaylist ==
    (TextParsed /\ \E k \in DOMAIN parsed.text : parsed.text[k].marker)
        => (parsed.outcome = "This is a Master Playlist" /\ parsed.segments = <<>>)

\* the marker is not on the first line and a segment URI line precedes it
C16_Witness ==
    /\ parsed.outcome = "This is a Master Playlist"
    /\ Len(parsed.text) > 1
    /\ parsed.text[1].kind = "uri"
    /\ ~parsed.text[1].marker

DirectiveKinds == {"comment", "targetduration", "mediasequence", "key", "map"}

\* C17: a manifest made of directive lines only (target duration, media
\* sequence, key and init-segment directives among them), with no segment URI
\* line, makes fetchManifest fail with "No segments found.".
C17_OnlyDirectives ==
    (/\ TextParsed
     /\ \A k \in DOMAIN parsed.text :
            parsed.text[k].kind \in DirectiveKinds /\ ~parsed.text[k].marker)
        => parsed.outcome = "No segments found."

\* C18: every descriptor carries exactly the encryption info of the last key
\* directive before its line when that directive has a method other than NONE,
\* and no encryption when that directive has METHOD=NONE or no METHOD, or when
\* no key directive precedes the line.
C18_KeyCarryForward ==
    parsed.outcome = "ok" =>
        \A p \in DOMAIN parsed.segments :
            parsed.segments[p].encryption = KeyInForceAt(parsed.text, LineOf(parsed.text, p))

\* a key is set, a segment is emitted under it, the key is cleared, and another
\* segment is emitted
C18_Witness ==
    /\ parsed.outcome = "ok"
    /\ Len(parsed.segments) = 2
    /\ parsed.segments[1].encryption.method = "AES-128"
    /\ parsed.segments[2].encryption = NoEncryption

\* C19: the descriptor at list position i (from 0) has index i, init-segment
\* descriptors included.
C19_Indices ==
    parsed.outcome = "ok" =>
        \A p \in DOMAIN parsed.segments : parsed.segments[p].index = p - 1

\* three descriptors, the second of them an init segment
C19_Witness ==
    /\ parsed.outcome = "ok"
    /\ Len(parsed.segments) = 3
    /\ parsed.segments[2].isInitSegment
    /\ ~parsed.segments[3].isInitSegment

\* C20: every descriptor's sequence ID is the media-sequence value in effect at
\* its line plus the number of descriptors emitted before it.
C20_SequenceIds ==
    parsed.outcome = "ok" =>
        \A p \in DOMAIN parsed.segments :
            parsed.segments[p].seqId
                = MediaSequenceAt(parsed.text, LineOf(parsed.text, p)) + (p - 1)

\* media sequence 100, then an init segment and two segment lines: 100, 101, 102
C20_Witness ==
    /\ parsed.outcome = "ok"
    /\ parsed.text[1].kind = "mediasequence"
    /\ Len(parsed.segments) = 3
    /\ parsed.segments[1].isInitSegment
    /\ parsed.segments[3].seqId = parsed.text[1].value + 2

----------------------------------------------------------------------------
(* Properties of the key and IV handling *)

Decrypting == {t \in tasks : t.stage = "decrypt"}

\* byte k (1..16) of the 16-byte big-endian encoding of n, for n below 2^31
BigEndianByte(n, k) ==
    IF k = 16 THEN n % 256
    ELSE IF k = 15 THEN (n \div 256) % 256
    ELSE IF k = 14 THEN (n \div 65536) % 256
    ELSE IF k = 13 THEN (n \div 16777216) % 256
    ELSE 0

\* C21: the IV derived from sequence number n is 16 bytes, bytes 0-7 zero and
\* bytes 8-15 the big-endian encoding of n, the same for every task with the
\* same n, and the 32-bit fallback yields the same 16 bytes.
C21_SequenceIV ==
    \A t \in Decrypting :
        LET seg == SegOf(invs[t.inv], t.idx)
            n == SeqArg(seg)
        IN ~seg.encryption.iv.has =>
              /\ Len(t.iv) = 16
              /\ \A k \in 1..16 : t.iv[k] = BigEndianByte(n, k)
              /\ t.iv = sequenceToIVFallback(n)

\* decryptions under way for sequence numbers 7 and 16777474: the IVs end in
\* 0,0,0,7 and in 1,0,1,2
C21_Witness ==
    \E t, u \in Decrypting :
        /\ SegOf(invs[t.inv], t.idx).seqId = 7
        /\ t.iv = [k \in 1..16 |-> IF k = 16 THEN 7 ELSE 0]
        /\ SegOf(invs[u.inv], u.idx).seqId = 16777474
        /\ SubSeq(u.iv, 13, 16) = <<1, 0, 1, 2>>

\* the 16 bytes the 32 hex digits of HexDigits stand for
DecodedIv == [j \in 1..16 |-> HexDigits[2 * j - 1] * 16 + HexDigits[2 * j]]

\* the descriptors of invocation id that carry an explicit IV and are decrypted
WithExplicitIv(id) ==
    {k \in 0..(Len(invs[id].segments) - 1) :
        SegOf(invs[id], k).encryption.iv.has /\ NeedsDecrypt(SegOf(invs[id], k))}

\* C22: the explicit IV of a key directive is stored as the 16 bytes its hex
\* text stands for, with or without 0x, and every decryption under that key
\* uses exactly these bytes, whatever the segment's sequence ID.
C22_ExplicitIV ==
    \A id \in DOMAIN invs :
        \A k \in WithExplicitIv(id) :
            LET seg == SegOf(invs[id], k) IN
            /\ seg.encryption.iv.bytes = DecodedIv
            /\ \A t \in Decrypting : (t.inv = id /\ t.idx = k) => t.iv = DecodedIv
            /\ invs[id].results[k].has =>
                  invs[id].results[k].bytes
                      = Decrypt(Body(seg.url), KeyBytes(seg.encryption.uri), DecodedIv)

\* two segments with different sequence IDs were decrypted under the key whose
\* IV text has the 0x prefix
C22_Witness ==
    \E id \in DOMAIN invs :
        /\ invs[id].status = "resolved"
        /\ WithExplicitIv(id) = {0, 1}
        /\ SegOf(invs[id], 0).seqId # SegOf(invs[id], 1).seqId
        /\ invs[id].results[0].has /\ invs[id].results[1].has

\* C23: the buffer stored at results[index] for a descriptor that carries
\* AES-128 encryption is the output of the decrypt step with the descriptor's
\* key and IV, never the bytes as fetched, whether or not the key directive had
\* a URI.
C23_Aes128IsDecrypted ==
    \A id \in DOMAIN invs :
        \A k \in 0..(Len(invs[id].segments) - 1) :
            LET seg == SegOf(invs[id], k) IN
            (seg.encryption.method = "AES-128" /\ invs[id].results[k].has) =>
                invs[id].results[k].bytes
                    = Decrypt(Body(seg.url), KeyBytes(seg.encryption.uri), IvFor(seg))

\* C24: a download whose list has a descriptor with a method other than NONE
\* and AES-128 does not resolve, and the bytes of that descriptor are never
\* stored.
C24_OtherMethodFails ==
    \A id \in DOMAIN invs :
        \A k \in 0..(Len(invs[id].segments) - 1) :
            SegOf(invs[id], k).encryption.method \notin {"undefined", "NONE", "AES-128"} =>
                (invs[id].status # "resolved" /\ ~invs[id].results[k].has)

----------------------------------------------------------------------------
(* Properties of progress reporting, of the relay and of the inputs *)

Stored(id) == {k \in DOMAIN invs[id].results : invs[id].results[k].has}

\* C25: the calls of onProgress within one invocation are (1, total), (2,
\* total), ... in this order, one per stored segment, never beyond total, and
\* exactly total of them when the invocation resolved.
C25_ProgressCounts ==
    \A id \in DOMAIN invs :
        LET v == invs[id]
            total == Len(v.segments)
        IN /\ v.progress = [j \in 1..Len(v.progress) |-> <<j, total>>]
           /\ Len(v.progress) = Cardinality(Stored(id))
           /\ Len(v.progress) <= total
           /\ v.status = "resolved" => Len(v.progress) = total

\* C26: with the proxy option on, the manifest, every segment and every key are
\* requested from the relay address wrapping the original URL, and with the
\* option off from the original URL; the key cache is keyed by the original
\* key URI in both cases.
C26_ProxyRouting ==
    /\ parsed.target.url # "" =>
          parsed.target = [relay |-> parsed.useProxy, url |-> "manifest"]
    /\ \A id \in DOMAIN invs : invs[id].useProxy = parsed.useProxy
    /\ \A t \in tasks :
          LET seg == SegOf(invs[t.inv], t.idx) IN
          /\ t.stage = "fetch" =>
                t.target = [relay |-> parsed.useProxy, url |-> seg.url]
          /\ t.stage = "key" =>
                t.target = [relay |-> parsed.useProxy, url |-> seg.encryption.uri]
    /\ \A u \in KeyUris :
          keyCache[u].has =>
              \E id \in DOMAIN invs : \E k \in DOMAIN invs[id].results :
                  NeedsDecrypt(SegOf(invs[id], k)) /\ SegOf(invs[id], k).encryption.uri = u

\* a download through the relay: the manifest was requested from it, and a
\* segment and a key are being requested from it
C26_Witness ==
    /\ parsed.useProxy
    /\ parsed.target.relay
    /\ \E t, u \in tasks :
          /\ t.stage = "fetch" /\ t.target.relay
          /\ u.stage = "key" /\ u.target.relay /\ u.target.url \in KeyUris

\* C27: a step of downloadSegments leaves the descriptor list of every
\* invocation as it was handed over, and a step that stitches leaves every
\* invocation, the buffers it was given included, as it was.
C27_InputsUntouched ==
    [][/\ \A id \in DOMAIN invs' :
             /\ invs'[id].segments \in SegmentLists
             /\ id \in Alive => invs'[id].segments = invs[id].segments
       /\ (stitched' # stitched /\ stitched'.has) =>
             /\ \A id \in DOMAIN invs' : invs'[id] = invs[id]
             /\ stitched'.input = invs[stitched'.of].results]_vars

\* the buffers of a resolved download of the longest list were stitched and are
\* still what the download returned
C27_Witness ==
    /\ stitched.has
    /\ Len(stitched.bytes) > 0
    /\ stitched.of \in DOMAIN invs
    /\ invs[stitched.of].results = stitched.input
    /\ invs[stitched.of].segments = SegmentList(MaxSegs, 2)

\* the target duration read last in the text (0: none)
LastTargetDuration(text) ==
    LET k == LastBefore(text, "targetduration", Len(text) + 1)
    IN IF k = 0 THEN 0 ELSE text[k].value

\* C28: segmentCount is the number of descriptors returned, init segments
\* included, and the estimated duration is segmentCount times the target
\* duration read last (0 without a target-duration directive).
C28_Metadata ==
    parsed.outcome = "ok" =>
        /\ parsed.info.segmentCount = Len(parsed.segments)
        /\ parsed.info.duration
              = Len(parsed.segments) * LastTargetDuration(parsed.text)

\* two target-duration directives, the last one 10, and two descriptors: 20
C28_Witness ==
    /\ parsed.outcome = "ok"
    /\ Len(parsed.text) = 4
    /\ parsed.text[1].kind = "targetduration"
    /\ parsed.text[1].value # 10
    /\ parsed.text[3].kind = "targetduration"
    /\ parsed.text[3].value = 10
    /\ parsed.info.segmentCount = 2
    /\ parsed.info.duration = 20

\* C29: once an invocation has settled, onProgress is not called for it again
\* and none of its tasks writes the key cache.
C29_SettledIsSilent ==
    [][/\ \A id \in DOMAIN invs \cap DOMAIN invs' :
             invs[id].status # "running" =>
                 Len(invs'[id].progress) <= Len(invs[id].progress)
       /\ \A u \in KeyUris :
             (keyCache'[u] # keyCache[u] /\ keyCache'[u].has) =>
                 invs[keyCache'[u].by].status = "running"]_vars

\* C30: the displayed counters satisfy 0 <= downloadedSegments <= totalSegments
\* and 0 <= percent <= 100 in every state.
C30_CountersInRange ==
    /\ 0 <= app.downloadedSegments
    /\ app.downloadedSegments <= app.totalSegments
    /\ 0 <= app.percent.num
    /\ app.percent.num <= 100 * app.percent.den

----------------------------------------------------------------------------
(* Properties of downloadSegments: termination *)

\* the number of batches invocation v has started (every batch issues the
\* fetch of its first segment)
RECURSIVE BatchesRun(_, _)
BatchesRun(v, k) ==
    IF k >= Len(v.segments) THEN 0 ELSE v.fetches[k] + BatchesRun(v, k + BATCH_SIZE)

Running(id) == id \in DOMAIN invs /\ invs[id].status = "running"

\* C31: every invocation eventually settles when every fetch and every
\* cryptographic operation eventually completes or fails; it starts at most
\* ceil(n / BATCH_SIZE) batches for n segments; and an invocation with an empty
\* list is resolved by the call itself, with an empty array and no onProgress call.
C31_Terminates ==
    /\ \A id \in 1..(MaxInFlight + 1) : Running(id) ~> ~Running(id)
    /\ [](\A id \in Ids :
            LET v == invs[id] IN
            /\ BatchesRun(v, 0) * BATCH_SIZE < Len(v.segments) + BATCH_SIZE
            /\ Len(v.segments) = 0 =>
                  (v.status = "resolved" /\ v.progress = <<>> /\ DOMAIN v.results = {}))

\* an invocation of a list longer than one batch resolved after its last batch
C31_Witness ==
    \E id \in Ids :
        /\ invs[id].status = "resolved"
        /\ Len(invs[id].segments) > BATCH_SIZE
        /\ BatchesRun(invs[id], 0) * BATCH_SIZE >= Len(invs[id].segments)

----------------------------------------------------------------------------
(* Properties of the sequence-derived IV, from the manifest to the decryption *)

\* C32: for an AES-128 segment without an explicit IV the IV passed to
\* decryption is the sequence-derived IV of the descriptor's sequence ID, also
\* when that sequence ID is 0.
C32_IvOfSequenceId ==
    \A t \in Decrypting :
        LET seg == SegOf(invs[t.inv], t.idx)
        IN ~seg.encryption.iv.has => t.iv = sequenceToIV(seg.seqId)

----------------------------------------------------------------------------
(* Properties of the metadata flag isEncrypted *)

\* a key directive whose METHOD is present and not NONE
SetsKey(line) == line.kind = "key" /\ line.method \notin {"", "NONE"}

\* C33: isEncrypted is true if and only if the manifest contains a key
\* directive whose METHOD is present and not NONE, wherever it stands and
\* whatever follows it (a later METHOD=NONE clears the key, not the flag).
C33_IsEncrypted ==
    parsed.outcome = "ok" =>
        (parsed.info.isEncrypted <=> \E k \in DOMAIN parsed.text : SetsKey(parsed.text[k]))

\* the flag is true and no returned descriptor carries encryption: the key was
\* cleared by METHOD=NONE before the first segment line
C33_Witness ==
    /\ parsed.outcome = "ok"
    /\ parsed.info.isEncrypted
    /\ \A p \in DOMAIN parsed.segments : parsed.segments[p].encryption = NoEncryption
    /\ \E k \in DOMAIN parsed.text :
          /\ SetsKey(parsed.text[k])
          /\ \E m \in DOMAIN parsed.text : m > k /\ parsed.text[m].method = "NONE"

----------------------------------------------------------------------------
(* Properties of FFmpegService *)

\* the values call c passed to onProgress before its j-th
Before(c, j) == {c.reported[i].value : i \in 1..(j - 1)}

\* C34: the values one convertTsToMp4 call passes to onProgress never decrease:
\* the first is 5; a value reported from a progress event lies in 5..90 and
\* exceeds every value reported before; after the engine run 95 (or the maximum
\* so far) is reported and no event value after it; a call that resolved
\* reported 100 last; a call without onProgress reports nothing.
C34_ProgressMonotone ==
    \A id \in DOMAIN ffmpeg.convs :
        LET c == ffmpeg.convs[id]
            r == c.reported
        IN IF ~c.onProgress THEN r = <<>>
           ELSE /\ r[1] = [value |-> 5, by |-> "start"]
                /\ \A i, j \in DOMAIN r : i < j => r[i].value <= r[j].value
                /\ \A j \in DOMAIN r :
                      /\ r[j].by = "event" =>
                            /\ r[j].value \in 5..90
                            /\ \A v \in Before(c, j) : v < r[j].value
                      /\ r[j].by = "exec" =>
                            /\ r[j].value = 95
                            /\ \A v \in Before(c, j) : v <= 95
                            /\ \A i \in DOMAIN r : i > j => r[i].by # "event"
                /\ c.pc \in {"read", "delete input", "delete output", "resolved"} =>
                      \E j \in DOMAIN r : r[j].by = "exec"
                /\ c.pc = "resolved" => r[Len(r)].value = 100

\* a call resolved after reporting 5, event values below and at 90, 95 and 100,
\* and its handler, still attached, was called after the engine run
C34_Witness ==
    \E id \in DOMAIN ffmpeg.convs :
        LET c == ffmpeg.convs[id] IN
        /\ c.pc = "resolved"
        /\ c.late
        /\ \E i, j \in DOMAIN c.reported :
              /\ i < j
              /\ c.reported[i].by = "event" /\ c.reported[i].value < 90
              /\ c.reported[j] = [value |-> 90, by |-> "event"]
        /\ c.reported[Len(c.reported)].value = 100

\* a step in which the awaited load of an engine failed
ALoadFailed ==
    /\ ffmpeg'.loading # ffmpeg.loading
    /\ ffmpeg'.ready = ffmpeg.ready
    /\ ffmpeg'.engine = ffmpeg.engine

\* C35: as long as no load() has completed successfully, convertTsToMp4 fails
\* with 'FFmpeg engine not loaded', starts no call and leaves the engine's
\* files alone; once the service is loaded, load() creates no engine; and a
\* load() that failed leaves the service not loaded.
C35_LoadGuard ==
    [][/\ ffmpeg.ready = {} =>
             /\ ffmpeg'.convs = ffmpeg.convs
             /\ ffmpeg'.files = ffmpeg.files
             /\ ffmpeg'.lastConvert \in {ffmpeg.lastConvert, "FFmpeg engine not loaded"}
       /\ ffmpeg.isLoaded =>
             /\ ffmpeg'.engine = ffmpeg.engine
             /\ ffmpeg'.loading \subseteq ffmpeg.loading
       /\ ALoadFailed => ~ffmpeg'.isLoaded]_vars

----------------------------------------------------------------------------
(* Properties of the conversion button *)

Converts == {c \in calls : c.kind = "convert"}

\* the handlers that begin, and the convert calls that end, in a step
Begins(kind) == \E c \in calls' : c.kind = kind /\ \A d \in calls : d.h # c.h
DownloadBegins == Begins("download")
ConvertBegins == Begins("convert")
ConvertEnds == \E c \in Converts : \A d \in calls' : d.h # c.h

\* C36: a conversion starts only while stitched data is present and no
\* conversion has failed since the last download began; stitched data appears
\* only as the stitched buffers of a download that completed, and every
\* download that begins clears it; a conversion that fails leaves the phase
\* error and conversionFailed set, and conversionFailed stays set until a
\* download begins.
C36_ConversionGate ==
    [][/\ ConvertBegins => (app.stitchedData.has /\ ~app.conversionFailed)
       /\ DownloadBegins => ~app'.stitchedData.has
       /\ (app'.stitchedData.has /\ app'.stitchedData # app.stitchedData) =>
             \E c \in Downloads :
                /\ c.pc = "timer" /\ c \notin calls'
                /\ app'.stitchedData = Buf(stitchSegments(c.buffers))
       /\ ConvertEnds =>
             \/ app'.phase = "done" /\ app'.conversionFailed = app.conversionFailed
             \/ app'.phase = "error" /\ app'.conversionFailed
       /\ (app.conversionFailed /\ ~app'.conversionFailed) => DownloadBegins]_vars

\* a conversion failed: the stitched data is still there, the phase is error
\* and the button is disabled
C36_Witness ==
    /\ app.conversionFailed
    /\ app.phase = "error"
    /\ app.stitchedData.has
    /\ Converts = {}

----------------------------------------------------------------------------
(* Properties of normalizeTimestampsInPlace *)

\* the segments in which the scan finds a box, and the zero point: the time
\* of the first of them
Patched == {k \in DOMAIN fragments.input : tfdtPos(fragments.input[k]) >= 0}
ZeroPoint == ReadTime(fragments.input[CHOOSE k \in Patched : \A j \in Patched : k <= j])
TimeBytes(seg) == IF seg[tfdtPos(seg) + 5] = 1 THEN 8 ELSE 4
TimeOf(seg, orig) == SubSeq(seg, tfdtPos(orig) + 9, tfdtPos(orig) + 8 + TimeBytes(orig))

\* every byte outside the time of the first box found is as it was, and the
\* segments in which no box is found are as they were
OnlyTheTimeChanges ==
    /\ Len(fragments.output) = Len(fragments.input)
    /\ \A k \in DOMAIN fragments.input :
          LET seg == fragments.input[k]
              out == fragments.output[k]
          IN /\ Len(out) = Len(seg)
             /\ \A p \in 1..Len(seg) :
                   (k \notin Patched \/ p <= tfdtPos(seg) + 8
                                     \/ p > tfdtPos(seg) + 8 + TimeBytes(seg))
                      => out[p] = seg[p]

\* the difference of the original time and the zero point, modulo 2^64 or,
\* in its low four bytes, modulo 2^32
Difference(seg) == Minus(ReadTime(seg), ZeroPoint, 0)
Magnitude(seg) ==
    IF Below(ReadTime(seg), ZeroPoint)
    THEN Minus(ZeroPoint, ReadTime(seg), 0)
    ELSE Difference(seg)

====
